---- MODULE Spec2Model ----
(***************************************************************************)
(* Model of the st-qdrant-memory extension.                                *)
(*                                                                         *)
(*   - the write queue of version 3 (src/unnamed/part_000): queueMessage,  *)
(*     processSaveQueue, saveMessageToQdrant, with one step per await;     *)
(*   - the generation interceptor (src/unnamed/part_000, part_001);        *)
(*   - the event handler onMessageSent of src/index.js, which injects     *)
(*     into the chat array of getContext().                                *)
(*                                                                         *)
(* The runtime is single threaded: a handler runs from one suspension      *)
(* point (an awaited network call) to the next without interleaving, so    *)
(* every action below is one such run.                                     *)
(***************************************************************************)
EXTENDS Integers, Sequences, FiniteSets, TLC

VARIABLES
    settings,             \* part_000:27  let settings = { ...defaultSettings }
    saveQueue,            \* part_000:28  let saveQueue = []
    processingSaveQueue,  \* part_000:29  let processingSaveQueue = false
    drains,               \* activations of processSaveQueue suspended at an await
    nCalls,               \* number of queueMessage calls made so far
    nAccepted,            \* number of items pushed onto saveQueue so far
    lastCall,             \* how the last queueMessage call ended
    lastShifted,          \* seq of the item the drain loop shifted last
    upsertCount,          \* upsert requests per (messageId, characterName) while
                          \*   an item of that pair is queued or in flight
    lastUpsert,           \* seq of the item of the last upsert request
    lastFailed,           \* seq of the item whose save failed last
    nDrains,              \* number of activations of processSaveQueue that
                          \*   entered the while loop
    chat,                 \* getContext().chat, the persisted chat history
    name2,                \* getContext().name2, the selected character
    nAppends,             \* number of messages the host appended to chat
    build,                \* the file whose interceptor is installed
    gens,                 \* activations of qdrantMemoryInterceptor at an await
    genResult,            \* how the last interceptor call ended
    sent,                 \* the message sequence of that call when it ended
    nGens,                \* number of interceptor calls made so far
    abortCalled,          \* whether the abort handle of a call was invoked
    tasks,                \* index.js: activations of onMessageSent at an await
    lastProcessedLength,  \* index.js:151
    lastInjection,        \* index.js: the last injection step: its memories
                          \*   and the sequence it left
    nEvents,              \* index.js: number of events delivered so far
    collections,          \* the store: the names of the collections that exist
    points,               \* the store: the points of each collection
    vectorParams,         \* the store: the vector size and the distance each
                          \*   collection was created with
    calls,                \* the activation of saveMessageToQdrant, of
                          \*   searchMemories and of deleteCollection that is
                          \*   suspended at an await, if any
    lastSearch,           \* how the last searchMemories call ended
    lastEnsure,           \* what the last ensureCollection call returned
    nStoreCalls,          \* number of saveMessageToQdrant, searchMemories and
                          \*   deleteCollection calls and of changes of the
                          \*   per-character setting made so far
    nameArg,              \* the character name getCollectionName is given
    nameOut,              \* what getCollectionName returned for it
    nApplied,             \* how often the sanitizing steps were applied to it
    stored,               \* localStorage.getItem(extensionName), part_000:33, 47
    loaded,               \* how loadSettings ended (part_000:835), and how
                          \*   often the page was loaded
    hooks,                \* part_000:839: whether the host has an eventSource
    lastChatLength,       \* part_000:846: let lastChatLength = 0
    pending,              \* an event of the host is emitted and not yet handled
    gateway,              \* how the last call of a gateway function ended
    memoriesArg,          \* the argument formatMemories is given
    formatted             \* what formatMemories returned for it

uiVars    == <<settings, stored, loaded>>
queueVars == <<saveQueue, processingSaveQueue, drains, nCalls, nAccepted,
               lastCall, lastShifted, upsertCount, lastUpsert, lastFailed,
               nDrains>>
hostVars  == <<chat, name2, nAppends>>
genVars   == <<build, gens, genResult, sent, nGens, abortCalled>>
indexVars == <<tasks, lastProcessedLength, lastInjection, nEvents>>
storeVars == <<collections, points, vectorParams, calls, lastSearch, lastEnsure,
               nStoreCalls>>
nameVars  == <<nameArg, nameOut, nApplied>>
autoVars  == <<hooks, lastChatLength, pending>>
callVars  == <<gateway, memoriesArg, formatted>>

vars == <<uiVars, queueVars, hostVars, genVars, indexVars, storeVars, nameVars,
          autoVars, callVars>>

(***************************************************************************)
(* Bounds of the model.                                                    *)
(***************************************************************************)
MaxCalls == 3
MaxAppends == 2
MaxGens == 1
MaxEvents == 2
MaxResults == 1

(***************************************************************************)
(* Inputs.                                                                 *)
(***************************************************************************)
DefaultMinMessageLength == 10
DefaultMemoryPosition == 2
DefaultMemoryLimit == 5

\* Scores and thresholds are counted in hundredths: 0.3 is 30.
DefaultScoreThreshold == 30
DisplayLength == 150

Texts == {"too short", "ten chars!"}
Chars == {"Alice", "Bob"}
Ids   == {"m1", "m2"}
Keys  == {"", "sk-key"}
Names == {"", "Alice"}
Mes   == {"", "hi"}
MemoryPositions == {1, DefaultMemoryPosition, 3}
Builds == {"part_000", "part_001"}

\* Outcomes of one network call: a success response, a non-success response,
\* a rejected fetch, a success response whose body has not the expected shape.
Outcomes == {"ok", "notok", "throw"}
BodyOutcomes == Outcomes \cup {"malformed"}

\* The answers of the calls of a save when every network call succeeds: the
\* probe finds the collection or not, the other requests are served.
Succeeds == {"ok"}
ProbeSucceeds == {"ok", "notok"}

\* A call without messageId: the argument is undefined.
NoMessageId == ""

Pairs == (Ids \cup {NoMessageId}) \X Chars

PairOf(item) == <<item.messageId, item.characterName>>

(***************************************************************************)
(* Settings.                                                               *)
(***************************************************************************)
defaultSettings ==
    [ enabled               |-> TRUE,
      collectionName        |-> "sillytavern_memories",
      openaiApiKey          |-> "",
      usePerCharacterCollections |-> TRUE,
      memoryPosition        |-> DefaultMemoryPosition,
      autoSaveMemories      |-> TRUE,
      saveUserMessages      |-> TRUE,
      saveCharacterMessages |-> TRUE,
      minMessageLength      |-> DefaultMinMessageLength,
      memoryLimit           |-> DefaultMemoryLimit,
      scoreThreshold        |-> DefaultScoreThreshold,
      embeddingModel        |-> "text-embedding-3-large" ]

\* The settings loadSettings can leave and the settings panel can set, for
\* the fields the write queue reads; the other fields at their defaults.
SettingsSpace ==
    [ enabled               : {defaultSettings.enabled},
      collectionName        : {defaultSettings.collectionName},
      usePerCharacterCollections : {defaultSettings.usePerCharacterCollections},
      openaiApiKey          : Keys,
      memoryPosition        : {defaultSettings.memoryPosition},
      autoSaveMemories      : BOOLEAN,
      saveUserMessages      : BOOLEAN,
      saveCharacterMessages : BOOLEAN,
      minMessageLength      : {defaultSettings.minMessageLength},
      memoryLimit           : {defaultSettings.memoryLimit},
      scoreThreshold        : {defaultSettings.scoreThreshold},
      embeddingModel        : {defaultSettings.embeddingModel} ]

\* The save policy flags are read by queueMessage alone, at its entry, and
\* are drawn when the extension is loaded; the API key is the one setting the
\* drain loop reads while it is suspended, and is edited while it runs.
DrainSettings == {"openaiApiKey"}

\* The same for the fields retrieval and injection read.
InjectionSettingsSpace ==
    [ enabled               : BOOLEAN,
      collectionName        : {defaultSettings.collectionName},
      usePerCharacterCollections : {defaultSettings.usePerCharacterCollections},
      openaiApiKey          : Keys,
      memoryPosition        : MemoryPositions,
      autoSaveMemories      : {defaultSettings.autoSaveMemories},
      saveUserMessages      : {defaultSettings.saveUserMessages},
      saveCharacterMessages : {defaultSettings.saveCharacterMessages},
      minMessageLength      : {defaultSettings.minMessageLength},
      memoryLimit           : {defaultSettings.memoryLimit},
      scoreThreshold        : {defaultSettings.scoreThreshold},
      embeddingModel        : {defaultSettings.embeddingModel} ]

(***************************************************************************)
(* Collection names (src/unnamed/part_000, getCollectionName).             *)
(***************************************************************************)

UpperCase == "ABCDEFGHIJKLMNOPQRSTUVWXYZ"
LowerCase == "abcdefghijklmnopqrstuvwxyz"
Digits    == "0123456789"

CharsOf(str) == {SubSeq(str, i, i) : i \in 1..Len(str)}

\* String.prototype.toLowerCase on one character of the inputs below.
LowerChar(ch) ==
    IF ch \in CharsOf(UpperCase)
    THEN LET i == CHOOSE j \in 1..Len(UpperCase) : SubSeq(UpperCase, j, j) = ch
         IN SubSeq(LowerCase, i, i)
    ELSE ch

RECURSIVE toLowerCase(_)
\* part_000:58: .toLowerCase()
toLowerCase(str) ==
    IF str = "" THEN ""
    ELSE LowerChar(SubSeq(str, 1, 1)) \o toLowerCase(SubSeq(str, 2, Len(str)))

\* The class with the hyphen left out: [^a-z0-9_].
KeptCharsNoHyphen == CharsOf(LowerCase) \cup CharsOf(Digits) \cup {"_"}

\* part_000:59: the characters the class [^a-z0-9_-] does not match.
KeptChars == CharsOf(LowerCase) \cup CharsOf(Digits) \cup {"_", "-"}

RECURSIVE replaceSpecial(_)
\* part_000:59: .replace(/[^a-z0-9_-]/g, '_')
replaceSpecial(str) ==
    IF str = "" THEN ""
    ELSE (IF SubSeq(str, 1, 1) \in KeptChars THEN SubSeq(str, 1, 1) ELSE "_")
         \o replaceSpecial(SubSeq(str, 2, Len(str)))

\* The collapsing step left out.
collapseNothing(str) == str

RECURSIVE collapseUnderscores(_)
\* part_000:60: .replace(/_+/g, '_')
collapseUnderscores(str) ==
    IF Len(str) < 2 THEN str
    ELSE IF SubSeq(str, 1, 1) = "_" /\ SubSeq(str, 2, 2) = "_"
    THEN collapseUnderscores(SubSeq(str, 2, Len(str)))
    ELSE SubSeq(str, 1, 1) \o collapseUnderscores(SubSeq(str, 2, Len(str)))

\* part_000:61: .replace(/^_|_$/g, ''): one underscore at the start and one
\* at the end are removed.
trimUnderscores(str) ==
    LET a == IF str # "" /\ SubSeq(str, 1, 1) = "_"
             THEN SubSeq(str, 2, Len(str)) ELSE str
    IN IF a # "" /\ SubSeq(a, Len(a), Len(a)) = "_"
       THEN SubSeq(a, 1, Len(a) - 1) ELSE a

\* part_000:57-61: the sanitized character name.
sanitized(characterName) ==
    trimUnderscores(collapseUnderscores(replaceSpecial(toLowerCase(characterName))))

\* part_000:51-64: getCollectionName.
getCollectionName(s, characterName) ==
    IF ~s.usePerCharacterCollections
    THEN s.collectionName
    ELSE s.collectionName \o "_" \o sanitized(characterName)

\* The characters the names below are made of, and the length of the names.
MaxNameLen == 3
NameChars == {"a", "Z", "7", "_", "-", " ", "!"}

RECURSIVE StringsOfLen(_)
StringsOfLen(n) ==
    IF n = 0 THEN {""}
    ELSE {str \o ch : str \in StringsOfLen(n - 1), ch \in NameChars}

\* The names getCollectionName is given: every string over NameChars up to
\* MaxNameLen characters, and the names of the documentation.
CharacterNames ==
    UNION {StringsOfLen(n) : n \in 0..MaxNameLen}
        \cup {"Alice", "Bob", "Dr. Smith", "Neko-chan!"}

BaseNames == {defaultSettings.collectionName, "mem"}

NameSettingsSpace ==
    [ enabled               : {defaultSettings.enabled},
      collectionName        : BaseNames,
      openaiApiKey          : {defaultSettings.openaiApiKey},
      usePerCharacterCollections : BOOLEAN,
      memoryPosition        : {defaultSettings.memoryPosition},
      autoSaveMemories      : {defaultSettings.autoSaveMemories},
      saveUserMessages      : {defaultSettings.saveUserMessages},
      saveCharacterMessages : {defaultSettings.saveCharacterMessages},
      minMessageLength      : {defaultSettings.minMessageLength},
      memoryLimit           : {defaultSettings.memoryLimit},
      scoreThreshold        : {defaultSettings.scoreThreshold},
      embeddingModel        : {defaultSettings.embeddingModel} ]

MaxApplied == 2

NoNameOut == [called |-> FALSE, value |-> "", base |-> "", perCharacter |-> FALSE]

NameInit ==
    /\ nameArg = ""
    /\ nameOut = NoNameOut
    /\ nApplied = 0

\* getCollectionName is called with the name.
CallGetCollectionName ==
    /\ nameOut' = [called |-> TRUE, value |-> getCollectionName(settings, nameArg),
                    base |-> settings.collectionName,
                    perCharacter |-> settings.usePerCharacterCollections]
    /\ UNCHANGED <<nameArg, nApplied>>
    /\ UNCHANGED <<uiVars, queueVars, hostVars, genVars, indexVars, storeVars,
                   autoVars, callVars>>

\* The sanitizing steps of lines 57-61 are applied to the name, their result
\* being the name of the next call.
Sanitize ==
    /\ nApplied < MaxApplied
    /\ nameArg' = sanitized(nameArg)
    /\ nApplied' = nApplied + 1
    /\ nameOut' = NoNameOut
    /\ UNCHANGED <<uiVars, queueVars, hostVars, genVars, indexVars, storeVars,
                   autoVars, callVars>>

(***************************************************************************)
(* The write queue (src/unnamed/part_000).                                 *)
(***************************************************************************)

\* The save policy with the length test off by one (<= for <).
PassesSavePolicyOffByOne(s, text, isUser) ==
    /\ s.autoSaveMemories
    /\ s.openaiApiKey # ""
    /\ ~(Len(text) <= s.minMessageLength)
    /\ ~(isUser /\ ~s.saveUserMessages)
    /\ ~(~isUser /\ ~s.saveCharacterMessages)

\* queueMessage, lines 249-255: the save policy. TRUE when no early return
\* is taken.
PassesSavePolicy(s, text, isUser) ==
    /\ s.autoSaveMemories
    /\ s.openaiApiKey # ""
    /\ ~(Len(text) < s.minMessageLength)
    /\ ~(isUser /\ ~s.saveUserMessages)
    /\ ~(~isUser /\ ~s.saveCharacterMessages)

\* The duplicate check left out.
isDuplicateNever(q, messageId, characterName) == FALSE

\* queueMessage, lines 258-260: saveQueue.some(...).
isDuplicate(q, messageId, characterName) ==
    \E i \in 1..Len(q) :
        q[i].messageId = messageId /\ q[i].characterName = characterName

\* The early return without the test of the flag.
ReturnsEarlyNoFlag(processing, q) == Len(q) = 0

\* processSaveQueue, line 235: the early return.
ReturnsEarly(processing, q) == processing \/ Len(q) = 0

\* The loop condition off by one.
LoopContinuesOffByOne(q) == Len(q) > 1

\* processSaveQueue, line 239: the condition of the while loop.
LoopContinues(q) == Len(q) > 0

\* pop() for shift(): the loop takes the newest item.
Pop(q) == [item |-> q[Len(q)], rest |-> SubSeq(q, 1, Len(q) - 1)]

\* processSaveQueue, line 240: saveQueue.shift().
Shift(q) == [item |-> Head(q), rest |-> Tail(q)]

\* The loop left without the reset of the flag.
LoopIterationKeepsFlag(q) ==
    IF LoopContinues(q)
    THEN [queue |-> Shift(q).rest, save |-> <<Shift(q).item>>, processing |-> TRUE]
    ELSE [queue |-> q, save |-> <<>>, processing |-> TRUE]

\* One evaluation of the while loop of processSaveQueue, lines 239-244, up to
\* the first await of saveMessageToQdrant (the fetch of collectionExists):
\* either the head is shifted and its save started, or the loop is left and
\* the flag reset.
LoopIteration(q) ==
    IF LoopContinues(q)
    THEN [queue |-> Shift(q).rest, save |-> <<Shift(q).item>>, processing |-> TRUE]
    ELSE [queue |-> q, save |-> <<>>, processing |-> FALSE]

\* saveMessageToQdrant, lines 275-278: up to the fetch of collectionExists.
StartSave(item) == [pc |-> "exists", item |-> item]

\* collectionExists, lines 77-85: response.ok, false when fetch rejects.
collectionExists(outcome) == outcome = "ok"

\* createCollection, lines 88-118.
createCollection(outcome) == outcome = "ok"

\* generateEmbedding, lines 142-166: data.data[0].embedding of a success
\* response, which is the vector, or undefined when the first item of the
\* body has no embedding; null for a non-success response (156-160) and in
\* the catch (163-166), which a rejected fetch and a body without data reach.
generateEmbedding(outcome) ==
    IF outcome = "ok" THEN "vector"
    ELSE IF outcome = "noembedding" THEN "undefined"
    ELSE "null"

\* if (!embedding), lines 186 and 286: null and undefined are falsy.
Falsy(value) == value \in {"null", "undefined"}

\* The body of saveMessageToQdrant without its try/catch.
saveCatchesNothing(outcome) == outcome # "throw"

\* saveMessageToQdrant, lines 274 and 326-329: the try/catch around the body.
saveCatches(outcome) == TRUE

\* saveMessageToQdrant, lines 320-325: the value returned after the upsert.
saveResult(outcome) == outcome = "ok"

Busy(q, ds, p) ==
    \/ \E i \in 1..Len(q) : PairOf(q[i]) = p
    \/ \E k \in 1..Len(ds) : PairOf(ds[k].item) = p

RemoveAt(s, k) == SubSeq(s, 1, k - 1) \o SubSeq(s, k + 1, Len(s))

QueueInit ==
    /\ saveQueue = <<>>
    /\ processingSaveQueue = FALSE
    /\ drains = <<>>
    /\ nCalls = 0
    /\ nAccepted = 0
    /\ lastCall = "none"
    /\ lastShifted = 0
    /\ upsertCount = [p \in Pairs |-> 0]
    /\ lastUpsert = 0
    /\ lastFailed = 0
    /\ nDrains = 0

HostInit ==
    /\ chat = <<>>
    /\ nAppends = 0

GenInit ==
    /\ gens = <<>>
    /\ genResult = [result |-> "none", cause |-> "none"]
    /\ sent = <<>>
    /\ nGens = 0
    /\ abortCalled = FALSE

IndexInit ==
    /\ tasks = <<>>
    /\ lastProcessedLength = 0
    /\ lastInjection = [memories |-> <<>>, after |-> <<>>]
    /\ nEvents = 0

\* localStorage holds no item of the extension: nothing was saved yet.
NothingStored == [item |-> FALSE]

\* The kinds of the values of the settings, as defaultSettings (part_000:9-25)
\* and the handlers of the panel (739-802) give them.
BooleanKeys ==
    {"enabled", "usePerCharacterCollections", "autoSaveMemories", "saveUserMessages",
     "saveCharacterMessages"}
NumberKeys == {"memoryPosition", "minMessageLength", "memoryLimit", "scoreThreshold"}

\* JSON.stringify of one value of the settings (part_000:46): true or false,
\* the decimal digits of a number, a string between quotes.
StringifyValue(key, v) ==
    IF key \in BooleanKeys THEN (IF v THEN "true" ELSE "false")
    ELSE IF key \in NumberKeys THEN ToString(v)
    ELSE "\"" \o v \o "\""

DigitValue(ch) == CHOOSE d \in 0..9 : SubSeq(Digits, d + 1, d + 1) = ch

\* A number read from its last digit alone.
ParseNumberLastDigit(tok) ==
    IF Len(tok) = 0 THEN 0
    ELSE DigitValue(SubSeq(tok, Len(tok), Len(tok)))

\* JSON.parse of the digits of a number (part_000:36).
RECURSIVE ParseNumber(_)
ParseNumber(tok) ==
    IF Len(tok) = 0 THEN 0
    ELSE 10 * ParseNumber(SubSeq(tok, 1, Len(tok) - 1))
         + DigitValue(SubSeq(tok, Len(tok), Len(tok)))

\* JSON.parse of one value (part_000:36), told by the text: a string between
\* quotes, true, false, or a number.
ParseValue(tok) ==
    IF SubSeq(tok, 1, 1) = "\"" THEN SubSeq(tok, 2, Len(tok) - 1)
    ELSE IF tok = "true" THEN TRUE
    ELSE IF tok = "false" THEN FALSE
    ELSE ParseNumber(tok)

\* An item that is the JSON of an object with the keys given, the values
\* those of s.
StoredFields(s, keys) ==
    [item |-> TRUE, valid |-> TRUE,
     fields |-> [k \in keys |-> StringifyValue(k, s[k])]]

\* The item saveSettings writes: the settings as JSON (part_000:45-48).
StoredItem(s) == StoredFields(s, DOMAIN s)

\* An item that is no JSON.
InvalidItem == [item |-> TRUE, valid |-> FALSE]

\* loadSettings without its try/catch.
loadCatchesNothing(threw) == ~threw

\* loadSettings, part_000:35-39: the try/catch around JSON.parse.
loadCatches(threw) == TRUE

\* loadSettings, part_000:32-42: how the call ends.
loadOutcome(saved) ==
    IF ~saved.item THEN "nothing"
    ELSE IF saved.valid THEN "parsed"
    ELSE IF loadCatches(TRUE) THEN "caught" ELSE "threw"

\* The page was loaded once and found nothing stored.
FirstLoad(saved) == [outcome |-> loadOutcome(saved), n |-> 1]

\* part_000:838-846: the event hooks are installed and no poll has run.
AutoInit ==
    /\ hooks = TRUE
    /\ lastChatLength = 0
    /\ pending = FALSE

NoGateway ==
    [op |-> "none", outcome |-> "none", value |-> "none", threw |-> FALSE,
     requests |-> 0]

NoMemoriesArg == [given |-> FALSE, list |-> <<>>]

NoFormat == [called |-> FALSE, threw |-> FALSE, out |-> ""]

CallInit ==
    /\ gateway = NoGateway
    /\ memoriesArg = NoMemoriesArg
    /\ formatted = NoFormat

\* Nothing is stored (the settings are those the panel was left with), and
\* no single call was made.
OtherInit ==
    /\ stored = NothingStored
    /\ loaded = FirstLoad(NothingStored)
    /\ AutoInit
    /\ CallInit

(***************************************************************************)
(* The vector store and the calls that use it (src/unnamed/part_000):      *)
(* saveMessageToQdrant, searchMemories, ensureCollection, deleteCollection.*)
(***************************************************************************)
MaxStoreCalls == 3

\* The calls that use the store. At most one of each is in flight: the loop
\* of processSaveQueue awaits each save (part_000:241), the host awaits the
\* interceptor before it generates, and the delete button is disabled while
\* its request is pending (part_000:575).
Ops == {"save", "search", "delete"}

\* The characters of the chats: two names that differ only in case, which
\* getCollectionName maps to one collection.
StoreChars == {"Alice", "alice"}

StoreSettingsSpace ==
    [ enabled               : BOOLEAN,
      collectionName        : {"mem"},
      openaiApiKey          : Keys,
      usePerCharacterCollections : BOOLEAN,
      memoryPosition        : {defaultSettings.memoryPosition},
      autoSaveMemories      : {defaultSettings.autoSaveMemories},
      saveUserMessages      : {defaultSettings.saveUserMessages},
      saveCharacterMessages : {defaultSettings.saveCharacterMessages},
      minMessageLength      : {defaultSettings.minMessageLength},
      memoryLimit           : {defaultSettings.memoryLimit},
      scoreThreshold        : {defaultSettings.scoreThreshold},
      embeddingModel        : {defaultSettings.embeddingModel} ]

\* The text of the messages saved.
StoreText == "I love pizza"

\* The collections the calls below can name.
CollectionNames ==
    {getCollectionName(st, c) : st \in StoreSettingsSpace, c \in StoreChars}

\* part_000:460: the message id onMessageSent derives from the character
\* name, the date of the message and the length of the chat.
MessageIds(characterName) == {characterName \o "_date_1"}

\* The request with the method of deleteCollection.
createRequestAsDelete(collectionName) ==
    [method |-> "DELETE", collection |-> collectionName]

\* part_000:68-72: the table of getEmbeddingDimensions.
LargeDimensions == 3072
SmallDimensions == 1536

\* part_000:73: the size for a model the table does not have.
FallbackDimensions == 1536

dimensions ==
    [m \in {"text-embedding-3-large", "text-embedding-3-small", "text-embedding-ada-002"} |->
        IF m = "text-embedding-3-large" THEN LargeDimensions ELSE SmallDimensions]

\* A table lookup that gives every model the size of the small ones.
getEmbeddingDimensionsSmall(s) == SmallDimensions

\* getEmbeddingDimensions, part_000:67-74: dimensions[model] || 1536.
getEmbeddingDimensions(s) ==
    IF s.embeddingModel \in DOMAIN dimensions
    THEN dimensions[s.embeddingModel]
    ELSE FallbackDimensions

\* The length of the vectors the embeddings API gives for a model it has
\* (src/README.md:150-151, 295).
EmbeddingLength(model) == dimensions[model]

\* createCollection, part_000:98-103: the body of the create request.
createVectors(size) == [size |-> size, distance |-> "Cosine"]

\* A collection that does not exist has no vector parameters.
NoVectors == [size |-> 0, distance |-> "none"]

\* The vector parameters of collection c after the store served a request
\* that left the collections cols: those of the request for a collection it
\* made, none for one it removed.
VectorsAfter(params, before, after, c, vectors) ==
    [params EXCEPT ![c] = IF c \in after \ before THEN vectors
                          ELSE IF c \in before \ after THEN NoVectors
                          ELSE @]

\* createCollection, part_000:92-103: PUT /collections/{name}.
createRequest(collectionName) ==
    [method |-> "PUT", collection |-> collectionName]

\* collectionExists, part_000:79: GET /collections/{name}.
existsRequest(collectionName) ==
    [method |-> "GET", collection |-> collectionName]

\* deleteCollection, part_000:492-494: DELETE /collections/{name}.
deleteRequest(collectionName) ==
    [method |-> "DELETE", collection |-> collectionName]

\* The store serves a request on a collection: a probe succeeds when the
\* collection exists, a create makes an empty collection and is refused for
\* one that exists, a delete removes the collection with its points.
Served(request, cols, pts) ==
    LET c == request.collection
    IN IF request.method = "GET"
       THEN [status |-> IF c \in cols THEN "ok" ELSE "notok",
             collections |-> cols, points |-> pts]
       ELSE IF request.method = "PUT"
       THEN IF c \in cols
            THEN [status |-> "notok", collections |-> cols, points |-> pts]
            ELSE [status |-> "ok", collections |-> cols \cup {c},
                  points |-> [pts EXCEPT ![c] = {}]]
       ELSE IF c \in cols
            THEN [status |-> "ok", collections |-> cols \ {c},
                  points |-> [pts EXCEPT ![c] = {}]]
            ELSE [status |-> "notok", collections |-> cols, points |-> pts]

\* What a fetch gives: the answer of the store when the request reached it,
\* else the failure of the transport (a gateway error, a rejected fetch).
Answer(outcome, served) == IF outcome = "ok" THEN served.status ELSE outcome

\* One id for every message.
pointIdFixed(messageId, n) == "1"

\* saveMessageToQdrant, part_000:292: messageId || uuidv4(), n numbering the
\* calls.
pointId(messageId, n) ==
    IF messageId # "" THEN messageId ELSE "uuid-" \o ToString(n)

\* generateEmbedding, part_000:142-162: the vector the embeddings API gives
\* for a text.
Embedding(text) == "embedding of " \o text

\* saveMessageToQdrant, part_000:295-315: the point of the upsert, with the
\* fields of its payload that tell the records apart.
Point(text, characterName, isUser, messageId, n) ==
    [id |-> pointId(messageId, n), character |-> characterName,
     messageId |-> messageId, text |-> text,
     speaker |-> IF isUser THEN "user" ELSE "character",
     vector |-> Embedding(text)]

\* part_000:304-318: the store writes the point, replacing one of its id.
Upserted(pts, point) == {q \in pts : q.id # point.id} \cup {point}

\* The filter on another field of the payload.
searchFilterOnSpeaker(st, characterName) ==
    IF ~st.usePerCharacterCollections
    THEN [key |-> "speaker", value |-> characterName]
    ELSE [key |-> "none", value |-> ""]

\* searchMemories, part_000:195-205: the filter of the search request.
searchFilter(st, characterName) ==
    IF ~st.usePerCharacterCollections
    THEN [key |-> "character", value |-> characterName]
    ELSE [key |-> "none", value |-> ""]

\* part_000:207-213: the points of the collection the filter lets through,
\* those whose payload has the value under the key.
Matching(pts, filter) ==
    IF filter.key = "none" THEN pts
    ELSE {q \in pts : filter.key \in DOMAIN q /\ q[filter.key] = filter.value}

\* The test of settings.enabled left out.
searchDisabledNever(st) == FALSE

\* searchMemories, part_000:171: if (!settings.enabled) return [].
searchDisabled(st) == ~st.enabled

\* The test of collectionReady left out.
searchGivesUpNever(collectionReady) == FALSE

\* searchMemories, part_000:178: if (!collectionReady) ... return [].
searchGivesUp(collectionReady) == ~collectionReady

\* The body of searchMemories without its try/catch.
searchCatchesNothing(threw) == ~threw

\* searchMemories, part_000:173 and 227-230: the try/catch around the body.
searchCatches(threw) == TRUE

NoFilter == [key |-> "none", value |-> ""]

NoSearch ==
    [ended |-> FALSE, cause |-> "none", passed |-> {}, result |-> {}, hits |-> <<>>,
     threw |-> FALSE]

Idle ==
    [pc |-> "idle", characterName |-> "", collectionName |-> "", messageId |-> "",
     perCharacter |-> FALSE, filter |-> NoFilter, text |-> "", isUser |-> FALSE,
     limit |-> 0, threshold |-> 0, dimensions |-> 0, model |-> "", vectorLength |-> 0]

NoEnsure ==
    [ended |-> FALSE, value |-> FALSE, exists |-> FALSE, create |-> "none",
     held |-> FALSE]

\* The store before any request, and no call of the extension made.
StoreInit ==
    /\ collections = {}
    /\ points = [c \in CollectionNames |-> {}]
    /\ vectorParams = [c \in CollectionNames |-> NoVectors]
    /\ calls = [op \in Ops |-> Idle]
    /\ lastSearch = NoSearch
    /\ lastEnsure = NoEnsure
    /\ nStoreCalls = 0

StoreFrame == UNCHANGED <<uiVars, queueVars, hostVars, genVars, indexVars, nameVars, autoVars, callVars>>

\* An activation at its first await, with its arguments.
Activation(op, text, characterName, isUser, messageId) ==
    [pc |-> IF op = "delete" THEN "delete" ELSE "exists",
     characterName |-> characterName,
     collectionName |-> getCollectionName(settings, characterName),
     messageId |-> messageId,
     perCharacter |-> settings.usePerCharacterCollections,
     filter |-> NoFilter,
     text |-> text,
     isUser |-> isUser,
     limit |-> 0,
     threshold |-> 0,
     dimensions |-> 0,
     model |-> "",
     vectorLength |-> 0]

\* saveMessageToQdrant, part_000:273-278, called by the loop of
\* processSaveQueue, up to the fetch of collectionExists.
CallSave(text, characterName, isUser, messageId) ==
    /\ nStoreCalls < MaxStoreCalls
    /\ calls["save"] = Idle
    /\ nStoreCalls' = nStoreCalls + 1
    /\ calls' = [calls EXCEPT !["save"] = Activation("save", text, characterName, isUser, messageId)]
    /\ UNCHANGED <<collections, vectorParams, points, lastSearch, lastEnsure>>
    /\ StoreFrame

\* searchMemories, part_000:170-177, up to the fetch of collectionExists.
CallSearch(characterName) ==
    /\ nStoreCalls < MaxStoreCalls
    /\ calls["search"] = Idle
    /\ nStoreCalls' = nStoreCalls + 1
    /\ IF searchDisabled(settings)
       THEN /\ lastSearch' = [ended |-> TRUE, cause |-> "disabled", passed |-> {},
                              result |-> {}, hits |-> <<>>, threw |-> FALSE]
            /\ UNCHANGED calls
       ELSE /\ calls' = [calls EXCEPT !["search"] = Activation("search", "", characterName, FALSE, "")]
            /\ UNCHANGED lastSearch
    /\ UNCHANGED <<collections, vectorParams, points, lastEnsure>>
    /\ StoreFrame

\* The click handler of the memory viewer, part_000:572-576, calls
\* deleteCollection (490-494) for the collection of the character.
CallDelete(characterName) ==
    /\ nStoreCalls < MaxStoreCalls
    /\ calls["delete"] = Idle
    /\ nStoreCalls' = nStoreCalls + 1
    /\ calls' = [calls EXCEPT !["delete"] = Activation("delete", "", characterName, FALSE, "")]
    /\ UNCHANGED <<collections, vectorParams, points, lastSearch, lastEnsure>>
    /\ StoreFrame

\* The call of activation k returns: a search leaves its result.
EndCall(k, cause, passed, result, threw) ==
    /\ calls' = [calls EXCEPT ![k] = Idle]
    /\ IF k = "search"
       THEN lastSearch' = [ended |-> TRUE, cause |-> cause,
                           passed |-> passed,
                           result |-> IF threw THEN {} ELSE result,
                           hits |-> <<>>,
                           threw |-> threw /\ ~searchCatches(threw)]
       ELSE UNCHANGED lastSearch

\* ensureCollection has returned collectionReady to activation k:
\* saveMessageToQdrant, part_000:279-285, and searchMemories, 178-185, go on
\* to generateEmbedding, which returns null without a request when no API key
\* is set (137-140).
AfterEnsure(k, collectionReady) ==
    IF ~collectionReady /\ (k = "save" \/ searchGivesUp(collectionReady))
    THEN EndCall(k, "ensure", {}, {}, FALSE)
    ELSE IF settings.openaiApiKey = ""
    THEN EndCall(k, "embedding", {}, {}, FALSE)
    ELSE /\ calls' = [calls EXCEPT ![k].pc = "embed",
                                   ![k].model = settings.embeddingModel]
         /\ UNCHANGED lastSearch

\* collectionExists, part_000:77-85, settles for activation k;
\* ensureCollection, 123-132, returns true or goes on to createCollection.
StoreExistsResponds(k, outcome) ==
    /\ k \in Ops
    /\ calls[k].pc = "exists"
    /\ LET c == calls[k].collectionName
           served == Served(existsRequest(c), collections, points)
       IN IF collectionExists(Answer(outcome, served))
          THEN /\ lastEnsure' = [ended |-> TRUE, value |-> TRUE,
                                 exists |-> c \in collections, create |-> "none",
                                 held |-> points[c] # {}]
               /\ AfterEnsure(k, TRUE)
          ELSE /\ calls' = [calls EXCEPT ![k].pc = "create",
                                         ![k].dimensions = getEmbeddingDimensions(settings)]
               /\ UNCHANGED <<lastSearch, lastEnsure>>
    /\ UNCHANGED <<collections, vectorParams, points, nStoreCalls>>
    /\ StoreFrame

\* createCollection, part_000:88-118, settles for activation k, and
\* ensureCollection returns its value (129).
StoreCreateResponds(k, outcome) ==
    /\ k \in Ops
    /\ calls[k].pc = "create"
    /\ LET c == calls[k].collectionName
           served == Served(createRequest(c), collections, points)
           ready == createCollection(Answer(outcome, served))
       IN /\ collections' = IF outcome = "ok" THEN served.collections ELSE collections
          /\ points' = IF outcome = "ok" THEN served.points ELSE points
          /\ vectorParams' = VectorsAfter(vectorParams, collections, collections', c,
                                          createVectors(calls[k].dimensions))
          /\ lastEnsure' = [ended |-> TRUE, value |-> ready,
                            exists |-> c \in collections',
                            create |-> IF outcome # "ok" THEN "failed"
                                       ELSE IF c \in collections THEN "conflict"
                                       ELSE "new",
                            held |-> points'[c] # {}]
          /\ AfterEnsure(k, ready)
    /\ UNCHANGED nStoreCalls
    /\ StoreFrame

\* The embeddings API refuses a request for a model it does not have.
EmbeddingAnswer(model, outcome) ==
    IF outcome = "ok" /\ model \notin DOMAIN dimensions THEN "notok" ELSE outcome

\* The store refuses a vector whose length is not the vector size of the
\* collection (src/README.md:150-155).
Fits(k) == calls[k].vectorLength = vectorParams[calls[k].collectionName].size

\* generateEmbedding, part_000:142-166, settles for activation k:
\* saveMessageToQdrant issues the upsert (286-318), searchMemories the search
\* with its filter (186-213).
StoreEmbedResponds(k, outcome) ==
    /\ k \in Ops
    /\ calls[k].pc = "embed"
    /\ IF Falsy(generateEmbedding(EmbeddingAnswer(calls[k].model, outcome)))
       THEN EndCall(k, "embedding", {}, {}, FALSE)
       ELSE /\ calls' = [calls EXCEPT
                           ![k].pc = IF k = "save" THEN "upsert" ELSE "search",
                           ![k].vectorLength = EmbeddingLength(calls[k].model),
                           ![k].filter = IF k = "save" THEN NoFilter
                                         ELSE searchFilter(settings, calls[k].characterName),
                           ![k].limit = IF k = "save" THEN 0
                                        ELSE settings.memoryLimit,
                           ![k].threshold = IF k = "save" THEN 0
                                            ELSE settings.scoreThreshold]
            /\ UNCHANGED lastSearch
    /\ UNCHANGED <<collections, vectorParams, points, lastEnsure, nStoreCalls>>
    /\ StoreFrame

\* The upsert, part_000:304-325, settles for activation k.
StoreUpsertResponds(k, outcome) ==
    /\ k \in Ops
    /\ calls[k].pc = "upsert"
    /\ LET c == calls[k].collectionName
       IN points' = IF outcome = "ok" /\ c \in collections /\ Fits(k)
                    THEN [points EXCEPT ![c] =
                            Upserted(@, Point(calls[k].text, calls[k].characterName,
                                              calls[k].isUser, calls[k].messageId,
                                              nStoreCalls))]
                    ELSE points
    /\ EndCall(k, "upsert", {}, {}, FALSE)
    /\ UNCHANGED <<collections, vectorParams, lastEnsure, nStoreCalls>>
    /\ StoreFrame

\* The points that can pass the search of activation k: points of the
\* collection that pass the filter, whatever their scores, passing the
\* score threshold.
SearchAnswers(k) ==
    SUBSET Matching(points[calls[k].collectionName], calls[k].filter)

SmallerOf(a, b) == IF a < b THEN a ELSE b

\* The limit of the request left out.
LimitedNot(passed, limit) == {passed}

\* part_000:188: limit of the search request: the store returns the limit
\* best scoring of the points that pass, all of them when they are fewer.
Limited(passed, limit) ==
    {r \in SUBSET passed : Cardinality(r) = SmallerOf(limit, Cardinality(passed))}

\* The search, part_000:207-230, settles for activation k: the store answers
\* with points of the collection that pass the filter.
StoreSearchResponds(k, outcome) ==
    /\ k \in Ops
    /\ calls[k].pc = "search"
    /\ LET c == calls[k].collectionName
           answer == IF outcome \in {"ok", "malformed"} /\ (c \notin collections \/ ~Fits(k))
                     THEN "notok" ELSE outcome
       IN \E passed \in SearchAnswers(k) :
          \E result \in Limited(passed, calls[k].limit) :
             /\ answer # "ok" => passed = {}
             /\ EndCall(k, IF answer = "ok" THEN "searched" ELSE answer,
                        passed, result, answer \in {"throw", "malformed"})
    /\ UNCHANGED <<collections, vectorParams, points, lastEnsure, nStoreCalls>>
    /\ StoreFrame

\* The DELETE of deleteCollection, part_000:492-495, settles.
StoreDeleteResponds(k, outcome) ==
    /\ k \in Ops
    /\ calls[k].pc = "delete"
    /\ LET served == Served(deleteRequest(calls[k].collectionName), collections, points)
       IN /\ collections' = IF outcome = "ok" THEN served.collections ELSE collections
          /\ points' = IF outcome = "ok" THEN served.points ELSE points
          /\ vectorParams' = VectorsAfter(vectorParams, collections, collections',
                                          calls[k].collectionName, NoVectors)
    /\ EndCall(k, "delete", {}, {}, FALSE)
    /\ UNCHANGED <<lastEnsure, nStoreCalls>>
    /\ StoreFrame

(***************************************************************************)
(* The gateway functions called one at a time (src/unnamed/part_000):      *)
(* collectionExists, createCollection, getCollectionInfo, deleteCollection *)
(* and generateEmbedding.                                                  *)
(***************************************************************************)

\* The bodies a success response of the embeddings API can have: the
\* expected one, one that is no JSON or has no data array, one whose first
\* data item has no embedding.
EmbedOutcomes == BodyOutcomes \cup {"noembedding"}

\* deleteCollection, part_000:490-500: response.ok, false in the catch.
deleteCollection(answer) == answer = "ok"

\* getCollectionInfo, part_000:476-488: data.result of a success response,
\* null otherwise and in the catch.
getCollectionInfo(answer) == IF answer = "ok" THEN "result" ELSE "null"

\* The gateway functions without their try/catch.
gatewayCatchesNothing(threw) == ~threw

\* part_000:78-84, 89-117, 142-166, 477-487, 491-499: the try/catch around
\* the body of each gateway function.
gatewayCatches(threw) == TRUE

\* What rejects inside the try block: the fetch, and response.json() or the
\* read of data.data[0] for a body that has not the expected shape.
Rejects(answer) == answer \in {"throw", "malformed"}

BoolString(b) == IF b THEN "true" ELSE "false"

\* A call of a gateway function on collection c has settled.
Settled(op, answer, value, requests) ==
    gateway' = [op |-> op, outcome |-> answer,
                value |-> IF Rejects(answer) /\ ~gatewayCatches(TRUE)
                          THEN "none" ELSE value,
                threw |-> Rejects(answer) /\ ~gatewayCatches(TRUE),
                requests |-> requests]

GatewayFrame ==
    /\ UNCHANGED <<uiVars, queueVars, hostVars, genVars, indexVars, nameVars, autoVars>>
    /\ UNCHANGED <<calls, lastSearch, lastEnsure, nStoreCalls, memoriesArg, formatted>>

\* collectionExists(c), part_000:77-85.
CallCollectionExists(c, outcome) ==
    /\ LET answer == Answer(outcome, Served(existsRequest(c), collections, points))
       IN Settled("collectionExists", answer, BoolString(collectionExists(answer)), 1)
    /\ UNCHANGED <<collections, vectorParams, points>>
    /\ GatewayFrame

\* createCollection(c), part_000:88-118.
CallCreateCollection(c, outcome) ==
    /\ LET served == Served(createRequest(c), collections, points)
           answer == Answer(outcome, served)
       IN /\ Settled("createCollection", answer, BoolString(createCollection(answer)), 1)
          /\ collections' = IF outcome = "ok" THEN served.collections ELSE collections
          /\ points' = IF outcome = "ok" THEN served.points ELSE points
          /\ vectorParams' = VectorsAfter(vectorParams, collections, collections', c,
                                          createVectors(getEmbeddingDimensions(settings)))
    /\ GatewayFrame

\* getCollectionInfo(c), part_000:476-488.
CallGetCollectionInfo(c, outcome) ==
    /\ LET served == Served(existsRequest(c), collections, points)
           answer == IF outcome = "malformed" /\ served.status # "ok"
                     THEN "notok" ELSE Answer(outcome, served)
       IN Settled("getCollectionInfo", answer, getCollectionInfo(answer), 1)
    /\ UNCHANGED <<collections, vectorParams, points>>
    /\ GatewayFrame

\* deleteCollection(c), part_000:490-500.
CallDeleteCollection(c, outcome) ==
    /\ LET served == Served(deleteRequest(c), collections, points)
           answer == Answer(outcome, served)
       IN /\ Settled("deleteCollection", answer, BoolString(deleteCollection(answer)), 1)
          /\ collections' = IF outcome = "ok" THEN served.collections ELSE collections
          /\ points' = IF outcome = "ok" THEN served.points ELSE points
          /\ vectorParams' = VectorsAfter(vectorParams, collections, collections', c, NoVectors)
    /\ GatewayFrame

\* generateEmbedding(text), part_000:136-167: null without a request when no
\* API key is set.
CallGenerateEmbedding(outcome) ==
    /\ IF settings.openaiApiKey = ""
       THEN gateway' = [op |-> "generateEmbedding", outcome |-> "nokey",
                        value |-> "null", threw |-> FALSE, requests |-> 0]
       ELSE Settled("generateEmbedding", outcome, generateEmbedding(outcome), 1)
    /\ UNCHANGED <<collections, vectorParams, points>>
    /\ GatewayFrame

\* The state after the extension is loaded (lines 27-29, loadSettings).
Init ==
    /\ settings \in SettingsSpace
    /\ QueueInit /\ HostInit /\ GenInit /\ IndexInit /\ StoreInit /\ NameInit /\ OtherInit
    /\ name2 = "Alice"
    /\ build = "part_000"

\* queueMessage, lines 248-268, with the call of processSaveQueue (234-245)
\* up to its first await.
Enqueue(text, characterName, isUser, messageId) ==
    /\ nCalls < MaxCalls
    /\ nCalls' = nCalls + 1
    /\ UNCHANGED <<uiVars, upsertCount, lastUpsert, lastFailed>>
    /\ IF ~PassesSavePolicy(settings, text, isUser)
       THEN /\ lastCall' = "policy"
            /\ UNCHANGED <<saveQueue, processingSaveQueue, drains, nAccepted,
                           lastShifted, nDrains>>
       ELSE IF isDuplicate(saveQueue, messageId, characterName)
       THEN /\ lastCall' = "duplicate"
            /\ UNCHANGED <<saveQueue, processingSaveQueue, drains, nAccepted,
                           lastShifted, nDrains>>
       ELSE LET item == [text |-> text, characterName |-> characterName,
                         isUser |-> isUser, messageId |-> messageId,
                         seq |-> nAccepted + 1]
                q1 == Append(saveQueue, item)
                r == LoopIteration(q1)
            IN /\ lastCall' = "accepted"
               /\ nAccepted' = nAccepted + 1
               /\ IF ReturnsEarly(processingSaveQueue, q1)
                  THEN /\ saveQueue' = q1
                       /\ UNCHANGED <<processingSaveQueue, drains, lastShifted, nDrains>>
                  ELSE /\ saveQueue' = r.queue
                       /\ nDrains' = nDrains + 1
                       /\ processingSaveQueue' = r.processing
                       /\ drains' = IF r.save = <<>> THEN drains
                                    ELSE Append(drains, StartSave(r.save[1]))
                       /\ lastShifted' = IF r.save = <<>> THEN lastShifted
                                         ELSE r.save[1].seq

\* queueMessage called on its own.
queueMessage(text, characterName, isUser, messageId) ==
    /\ Enqueue(text, characterName, isUser, messageId)
    /\ UNCHANGED <<hostVars, genVars, indexVars, storeVars, nameVars, autoVars, callVars>>

\* The loop with a retry: an item whose save failed is pushed back.
ContinueLoopRetry(k, failed) ==
    LET q0 == IF failed THEN Append(saveQueue, drains[k].item) ELSE saveQueue
        r == LoopIteration(q0)
        ds == IF r.save = <<>> THEN RemoveAt(drains, k)
              ELSE [drains EXCEPT ![k] = StartSave(r.save[1])]
    IN /\ saveQueue' = r.queue
       /\ processingSaveQueue' = r.processing
       /\ drains' = ds
       /\ lastShifted' = IF r.save = <<>> THEN lastShifted ELSE r.save[1].seq
       /\ lastFailed' = IF failed THEN drains[k].item.seq ELSE lastFailed
       /\ upsertCount' = [p \in Pairs |->
                            IF Busy(r.queue, ds, p) THEN upsertCount[p] ELSE 0]

\* The save of drain k has returned (true or false): processSaveQueue goes
\* back to the head of its while loop, lines 239-244.
ContinueLoop(k, failed) ==
    LET r == LoopIteration(saveQueue)
        ds == IF r.save = <<>> THEN RemoveAt(drains, k)
              ELSE [drains EXCEPT ![k] = StartSave(r.save[1])]
    IN /\ saveQueue' = r.queue
       /\ processingSaveQueue' = r.processing
       /\ drains' = ds
       /\ lastShifted' = IF r.save = <<>> THEN lastShifted ELSE r.save[1].seq
       /\ lastFailed' = IF failed THEN drains[k].item.seq ELSE lastFailed
       /\ upsertCount' = [p \in Pairs |->
                            IF Busy(r.queue, ds, p) THEN upsertCount[p] ELSE 0]

\* saveMessageToQdrant, lines 285-289: generateEmbedding is called; with no
\* API key it returns null without a request (lines 137-140).
CallEmbedding(k) ==
    IF settings.openaiApiKey = ""
    THEN ContinueLoop(k, TRUE) /\ UNCHANGED lastUpsert
    ELSE /\ drains' = [drains EXCEPT ![k].pc = "embed"]
         /\ UNCHANGED <<saveQueue, processingSaveQueue, lastShifted, lastFailed,
                        upsertCount, lastUpsert>>

\* The fetch of collectionExists (line 79) settles; ensureCollection, lines
\* 123-132, goes on to createCollection when the collection is absent.
ExistsResponds(k, outcome) ==
    /\ k \in 1..Len(drains)
    /\ drains[k].pc = "exists"
    /\ UNCHANGED <<uiVars, nCalls, nAccepted, lastCall, nDrains>>
    /\ UNCHANGED <<hostVars, genVars, indexVars, storeVars, nameVars, autoVars, callVars>>
    /\ IF collectionExists(outcome)
       THEN CallEmbedding(k)
       ELSE /\ drains' = [drains EXCEPT ![k].pc = "create"]
            /\ UNCHANGED <<saveQueue, processingSaveQueue, lastShifted, lastFailed,
                           upsertCount, lastUpsert>>

\* The fetch of createCollection (line 92) settles; saveMessageToQdrant,
\* lines 278-282.
CreateResponds(k, outcome) ==
    /\ k \in 1..Len(drains)
    /\ drains[k].pc = "create"
    /\ UNCHANGED <<uiVars, nCalls, nAccepted, lastCall, nDrains>>
    /\ UNCHANGED <<hostVars, genVars, indexVars, storeVars, nameVars, autoVars, callVars>>
    /\ IF createCollection(outcome)
       THEN CallEmbedding(k)
       ELSE ContinueLoop(k, TRUE) /\ UNCHANGED lastUpsert

\* The fetch of generateEmbedding (line 143) settles; saveMessageToQdrant,
\* lines 285-318, issues the upsert when it got a vector.
EmbedResponds(k, outcome) ==
    /\ k \in 1..Len(drains)
    /\ drains[k].pc = "embed"
    /\ UNCHANGED <<uiVars, nCalls, nAccepted, lastCall, nDrains>>
    /\ UNCHANGED <<hostVars, genVars, indexVars, storeVars, nameVars, autoVars, callVars>>
    /\ IF Falsy(generateEmbedding(outcome))
       THEN ContinueLoop(k, TRUE) /\ UNCHANGED lastUpsert
       ELSE /\ drains' = [drains EXCEPT ![k].pc = "upsert"]
            /\ upsertCount' = [upsertCount EXCEPT ![PairOf(drains[k].item)] = @ + 1]
            /\ lastUpsert' = drains[k].item.seq
            /\ UNCHANGED <<saveQueue, processingSaveQueue, lastShifted, lastFailed>>

\* The upsert fetch (line 304) settles; saveMessageToQdrant, lines 320-329.
\* An exception the try/catch did not catch would leave processSaveQueue at
\* its await, line 241: the activation ends, the flag stays set.
UpsertResponds(k, outcome) ==
    /\ k \in 1..Len(drains)
    /\ drains[k].pc = "upsert"
    /\ UNCHANGED <<uiVars, nCalls, nAccepted, lastCall, lastUpsert, nDrains>>
    /\ UNCHANGED <<hostVars, genVars, indexVars, storeVars, nameVars, autoVars, callVars>>
    /\ IF outcome = "throw" /\ ~saveCatches(outcome)
       THEN /\ drains' = RemoveAt(drains, k)
            /\ lastFailed' = drains[k].item.seq
            /\ UNCHANGED <<saveQueue, processingSaveQueue, lastShifted, upsertCount>>
       ELSE ContinueLoop(k, ~saveResult(outcome))

\* loadSettings, part_000:32-42: the defaults overlaid with the fields of the
\* stored item; the defaults the settings start with (27) when nothing is
\* stored or JSON.parse throws.
loadSettings(saved) ==
    IF saved.item /\ saved.valid
    THEN [k \in DOMAIN defaultSettings |->
            IF k \in DOMAIN saved.fields THEN ParseValue(saved.fields[k])
            ELSE defaultSettings[k]]
    ELSE defaultSettings

\* A request of the save of drain k never returns: none of the fetches has a
\* timeout or an abort signal (lines 79, 92, 143, 304), so the activation
\* stays at its await.
RequestHangs(k) ==
    /\ k \in 1..Len(drains)
    /\ drains[k].pc # "hung"
    /\ drains' = [drains EXCEPT ![k].pc = "hung"]
    /\ UNCHANGED <<uiVars, saveQueue, processingSaveQueue, nCalls, nAccepted, lastCall,
                   lastShifted, upsertCount, lastUpsert, lastFailed, nDrains>>
    /\ UNCHANGED <<hostVars, genVars, indexVars, storeVars, nameVars, autoVars, callVars>>

\* A handler of the panel that also stores the settings.
onSettingInputSaves(key, edited) ==
    /\ edited[key] # settings[key]
    /\ \A other \in DOMAIN settings \ {key} : edited[other] = settings[other]
    /\ settings' = edited
    /\ stored' = StoredItem(edited)
    /\ UNCHANGED loaded
    /\ UNCHANGED <<queueVars, hostVars, genVars, indexVars, storeVars, nameVars, autoVars, callVars>>

\* The change and input handlers of the settings panel, lines 752-793: each
\* writes one field of settings.
onSettingInput(key, edited) ==
    /\ edited[key] # settings[key]
    /\ \A other \in DOMAIN settings \ {key} : edited[other] = settings[other]
    /\ settings' = edited
    /\ UNCHANGED <<stored, loaded>>
    /\ UNCHANGED <<queueVars, hostVars, genVars, indexVars, storeVars, nameVars, autoVars, callVars>>

\* The click handler of the save button, part_000:804-808, calls
\* saveSettings (45-48): localStorage.setItem with the settings. A click that
\* stores what is stored already changes nothing.
onSaveClick ==
    /\ stored # StoredItem(settings)
    /\ stored' = StoredItem(settings)
    /\ UNCHANGED <<settings, loaded>>
    /\ UNCHANGED <<queueVars, hostVars, genVars, indexVars, storeVars, nameVars, autoVars, callVars>>

(***************************************************************************)
(* Retrieval results and their injection (part_000, part_001, index.js).   *)
(***************************************************************************)

\* The messages the host appends to the chat.
HostMessages ==
    [is_user : BOOLEAN, is_system : {FALSE}, mes : Mes, isQdrantMemory : {FALSE}]

\* The records a search response can hold: with a payload text, or without.
MemoryRecords ==
    { [speaker |-> "user", text |-> "I love pizza", hasText |-> TRUE],
      [speaker |-> "character", text |-> "", hasText |-> FALSE] }

SeqsUpTo(S, n) == UNION {[1..m -> S] : m \in 0..n}

SearchResults == SeqsUpTo(MemoryRecords, MaxResults)

\* formatMemories, part_000:341: payload.text.substring of an undefined text
\* throws.
formatThrows(memories) == \E i \in 1..Len(memories) : ~memories[i].hasText

\* formatMemories, part_000:341: one bullet (the bullet glyph written "*").
Bullet(memory) ==
    "* " \o (IF memory.speaker = "user" THEN "You said" ELSE "Character said")
         \o ": \"" 
         \o (IF Len(memory.text) > DisplayLength
             THEN SubSeq(memory.text, 1, DisplayLength) \o "..."
             ELSE memory.text)
         \o "\"\n"

RECURSIVE BulletsReversed(_)
\* The bullets in the reverse of the order received.
BulletsReversed(memories) ==
    IF memories = <<>> THEN ""
    ELSE BulletsReversed(Tail(memories)) \o Bullet(Head(memories))

RECURSIVE Bullets(_)
\* formatMemories, part_000:338-342: forEach appends one bullet per record.
Bullets(memories) ==
    IF memories = <<>> THEN ""
    ELSE Bullet(Head(memories)) \o Bullets(Tail(memories))

\* formatMemories, part_000:333-345 (part_001:125-137, index.js:124-136).
formatMemories(memories) ==
    IF Len(memories) = 0 THEN ""
    ELSE "\n[Retrieved from past conversations]\n" \o Bullets(memories)

\* The memory entry of the interceptor, part_000:413-419 (part_001:209-215).
memoryEntry(memories) ==
    [is_user |-> FALSE, is_system |-> TRUE, mes |-> formatMemories(memories),
     isQdrantMemory |-> FALSE]

\* The memory entry of index.js:196-203, with extra.isQdrantMemory.
indexMemoryEntry(memories) ==
    [is_user |-> FALSE, is_system |-> TRUE, mes |-> formatMemories(memories),
     isQdrantMemory |-> TRUE]

\* The entry pushed at the end of the sequence.
insertIndexAtEnd(length, memoryPosition) == length

\* Math.max(0, chat.length - settings.memoryPosition), part_000:422.
insertIndex(length, memoryPosition) ==
    IF length - memoryPosition > 0 THEN length - memoryPosition ELSE 0

\* chat.splice(index, 0, entry), part_000:423.
Splice(seq, index, entry) ==
    SubSeq(seq, 1, index) \o <<entry>> \o SubSeq(seq, index + 1, Len(seq))

\* find without the reverse: the index of the first user message.
FirstUserIndex(seq) ==
    IF \E i \in 1..Len(seq) : seq[i].is_user
    THEN CHOOSE i \in 1..Len(seq) :
            seq[i].is_user /\ \A j \in 1..(i - 1) : ~seq[j].is_user
    ELSE 0

\* chat.slice().reverse().find(msg => msg.is_user), part_000:384: the index
\* of the last user message, 0 when there is none.
LastUserIndex(seq) ==
    IF \E i \in 1..Len(seq) : seq[i].is_user
    THEN CHOOSE i \in 1..Len(seq) :
            seq[i].is_user /\ \A j \in (i + 1)..Len(seq) : ~seq[j].is_user
    ELSE 0

\* part_000:385: if (!lastUserMsg || !lastUserMsg.mes).
NoQuery(seq) == LastUserIndex(seq) = 0 \/ seq[LastUserIndex(seq)].mes = ""

\* The try/catch of the interceptor left out.
interceptorCatchesNothing(threw) == ~threw

\* qdrantMemoryInterceptor, part_000:371 and 437-439 (part_001:167, 234-237):
\* the try/catch around the body.
interceptorCatches(threw) == TRUE

\* The host appends a message to the persisted chat.
HostAppend(msg) ==
    /\ nAppends < MaxAppends
    /\ chat' = Append(chat, msg)
    /\ nAppends' = nAppends + 1
    /\ UNCHANGED <<uiVars, name2, queueVars, genVars, indexVars, storeVars, nameVars, autoVars, callVars>>

\* The interceptor call of activation k ends: its promise is settled.
Finish(k, seq, cause, threw) ==
    /\ gens' = RemoveAt(gens, k)
    /\ genResult' = [result |-> IF threw /\ ~interceptorCatches(threw)
                                THEN "rejected" ELSE "resolved",
                     cause |-> cause]
    /\ sent' = seq

\* The interceptor returns before any await: no activation is suspended.
Return(seq, cause) ==
    /\ gens' = gens
    /\ genResult' = [result |-> "resolved", cause |-> cause]
    /\ sent' = seq

\* searchMemories calls generateEmbedding, part_000:185 (part_001:80); with
\* no API key it returns null without a request and the search returns [].
GenCallEmbedding(k) ==
    IF settings.openaiApiKey = ""
    THEN Finish(k, gens[k].chat, "embedding", FALSE)
    ELSE /\ gens' = [gens EXCEPT ![k].pc = "embed"]
         /\ UNCHANGED <<genResult, sent>>

\* qdrantMemoryInterceptor, part_000:363-403 (part_001:159-199), called by
\* the host with a working copy of the chat, up to the first await.
qdrantMemoryInterceptor ==
    /\ nGens < MaxGens
    /\ nGens' = nGens + 1
    /\ UNCHANGED <<uiVars, hostVars, queueVars, indexVars, storeVars, nameVars, autoVars, callVars, build, abortCalled>>
    /\ IF ~settings.enabled THEN Return(chat, "disabled")
       ELSE IF name2 = "" THEN Return(chat, "nocharacter")
       ELSE IF NoQuery(chat) THEN Return(chat, "noquery")
       ELSE LET g == [pc |-> IF build = "part_000" THEN "exists" ELSE "embed",
                      chat |-> chat,
                      query |-> chat[LastUserIndex(chat)].mes,
                      characterName |-> name2]
            IN IF build = "part_001" /\ settings.openaiApiKey = ""
               THEN Return(chat, "embedding")
               ELSE /\ gens' = Append(gens, g)
                    /\ UNCHANGED <<genResult, sent>>

\* part_000:177-183: the fetch of collectionExists settles.
GenExistsResponds(k, outcome) ==
    /\ k \in 1..Len(gens)
    /\ gens[k].pc = "exists"
    /\ UNCHANGED <<uiVars, hostVars, queueVars, indexVars, storeVars, nameVars, autoVars, callVars, build, nGens, abortCalled>>
    /\ IF collectionExists(outcome)
       THEN GenCallEmbedding(k)
       ELSE /\ gens' = [gens EXCEPT ![k].pc = "create"]
            /\ UNCHANGED <<genResult, sent>>

\* part_000:177-183: the fetch of createCollection settles.
GenCreateResponds(k, outcome) ==
    /\ k \in 1..Len(gens)
    /\ gens[k].pc = "create"
    /\ UNCHANGED <<uiVars, hostVars, queueVars, indexVars, storeVars, nameVars, autoVars, callVars, build, nGens, abortCalled>>
    /\ IF createCollection(outcome)
       THEN GenCallEmbedding(k)
       ELSE Finish(k, gens[k].chat, "ensure", FALSE)

\* part_000:185-186 (part_001:80-81): the fetch of generateEmbedding settles.
GenEmbedResponds(k, outcome) ==
    /\ k \in 1..Len(gens)
    /\ gens[k].pc = "embed"
    /\ UNCHANGED <<uiVars, hostVars, queueVars, indexVars, storeVars, nameVars, autoVars, callVars, build, nGens, abortCalled>>
    /\ IF Falsy(generateEmbedding(outcome))
       THEN Finish(k, gens[k].chat, "embedding", FALSE)
       ELSE /\ gens' = [gens EXCEPT ![k].pc = "search"]
            /\ UNCHANGED <<genResult, sent>>

\* A list in the opposite order.
Reversed(seq) == [i \in 1..Len(seq) |-> seq[Len(seq) + 1 - i]]

\* A searchMemories that returns the list of the store last entry first.
searchMemoriesReversed(outcome, result) ==
    IF outcome = "ok" THEN Reversed(result) ELSE <<>>

\* searchMemories, part_000:215-230 (part_001:106-121): the list returned for
\* a settled search fetch; result is data.result of a well-formed body.
searchMemories(outcome, result) == IF outcome = "ok" THEN result ELSE <<>>

\* part_000:403-439 (part_001:199-237): the search fetch settles and the
\* interceptor runs to its end.
GenSearchResponds(k, outcome, result) ==
    /\ k \in 1..Len(gens)
    /\ gens[k].pc = "search"
    /\ UNCHANGED <<uiVars, hostVars, queueVars, indexVars, storeVars, nameVars, autoVars, callVars, build, nGens, abortCalled>>
    /\ LET memories == searchMemories(outcome, result)
           seq == gens[k].chat
       IN IF Len(memories) = 0
          THEN Finish(k, seq, IF outcome = "ok" THEN "nomemories" ELSE outcome, FALSE)
          ELSE IF formatThrows(memories)
          THEN Finish(k, seq, "format", TRUE)
          ELSE Finish(k, Splice(seq, insertIndex(Len(seq), settings.memoryPosition),
                                memoryEntry(memories)),
                      "injected", FALSE)

(***************************************************************************)
(* index.js: onMessageSent injects into the chat of getContext().          *)
(***************************************************************************)

\* index.js:153-187: onMessageSent, run for a MESSAGE_SENT or CHAT_CHANGED
\* event (lines 349-350), up to its first await.
IndexOnMessageSent ==
    /\ nEvents < MaxEvents
    /\ nEvents' = nEvents + 1
    /\ UNCHANGED <<uiVars, hostVars, queueVars, genVars, storeVars, nameVars, autoVars, callVars, lastInjection>>
    /\ IF ~settings.enabled \/ Len(chat) <= lastProcessedLength
       THEN UNCHANGED <<tasks, lastProcessedLength>>
       ELSE /\ lastProcessedLength' = Len(chat)
            /\ IF \/ chat[Len(chat)].isQdrantMemory
                  \/ name2 = ""
                  \/ NoQuery(chat)
                  \/ settings.openaiApiKey = ""
               THEN UNCHANGED tasks
               ELSE tasks' = Append(tasks, [pc |-> "embed",
                                            query |-> chat[LastUserIndex(chat)].mes,
                                            characterName |-> name2])

\* index.js:79-80: the fetch of generateEmbedding settles.
IndexEmbedResponds(k, outcome) ==
    /\ k \in 1..Len(tasks)
    /\ tasks[k].pc = "embed"
    /\ UNCHANGED <<uiVars, hostVars, queueVars, genVars, storeVars, nameVars, autoVars, callVars, lastInjection,
                   lastProcessedLength, nEvents>>
    /\ tasks' = IF Falsy(generateEmbedding(outcome))
                THEN RemoveAt(tasks, k)
                ELSE [tasks EXCEPT ![k].pc = "search"]

\* index.js:97-120 and 187-212: the search fetch settles and onMessageSent
\* runs to its end, splicing into context.chat.
IndexSearchResponds(k, outcome, result) ==
    /\ k \in 1..Len(tasks)
    /\ tasks[k].pc = "search"
    /\ tasks' = RemoveAt(tasks, k)
    /\ UNCHANGED <<uiVars, name2, nAppends, queueVars, genVars, storeVars, nameVars, autoVars, callVars,
                   lastProcessedLength, nEvents>>
    /\ LET memories == searchMemories(outcome, result)
       IN IF Len(memories) = 0 \/ formatThrows(memories)
          THEN UNCHANGED <<chat, lastInjection>>
          ELSE /\ chat' = Splice(chat, insertIndex(Len(chat), settings.memoryPosition),
                                 indexMemoryEntry(memories))
               /\ lastInjection' = [memories |-> memories, after |-> chat']

Next ==
    \/ \E t \in Texts, c \in Chars, u \in BOOLEAN, m \in Ids : queueMessage(t, c, u, m)
    \/ \E k \in 1..Len(drains), o \in Outcomes : ExistsResponds(k, o)
    \/ \E k \in 1..Len(drains), o \in Outcomes : CreateResponds(k, o)
    \/ \E k \in 1..Len(drains), o \in BodyOutcomes : EmbedResponds(k, o)
    \/ \E k \in 1..Len(drains), o \in Outcomes : UpsertResponds(k, o)
    \/ \E key \in DrainSettings, e \in SettingsSpace : onSettingInput(key, e)

Spec == Init /\ [][Next]_vars

\* Two texts the save policy lets through.
LongTexts == {"ten chars!", "eleven chars"}

\* queueMessage called without messageId, and the drain loop.
NoIdNext ==
    \/ \E t \in LongTexts, c \in Chars, u \in BOOLEAN : queueMessage(t, c, u, NoMessageId)
    \/ \E k \in 1..Len(drains), o \in Outcomes : ExistsResponds(k, o)
    \/ \E k \in 1..Len(drains), o \in Outcomes : CreateResponds(k, o)
    \/ \E k \in 1..Len(drains), o \in BodyOutcomes : EmbedResponds(k, o)
    \/ \E k \in 1..Len(drains), o \in Outcomes : UpsertResponds(k, o)

SpecNoId == Init /\ [][NoIdNext]_vars

\* The responses of the requests of the drain loop.
DrainResponds ==
    \/ \E k \in 1..Len(drains), o \in Outcomes : ExistsResponds(k, o)
    \/ \E k \in 1..Len(drains), o \in Outcomes : CreateResponds(k, o)
    \/ \E k \in 1..Len(drains), o \in BodyOutcomes : EmbedResponds(k, o)
    \/ \E k \in 1..Len(drains), o \in Outcomes : UpsertResponds(k, o)

HangNext ==
    \/ \E t \in Texts, c \in Chars, u \in BOOLEAN, m \in Ids : queueMessage(t, c, u, m)
    \/ DrainResponds
    \/ \E k \in 1..Len(drains) : RequestHangs(k)

\* The write queue when every network call eventually returns: each fetch
\* of the save in flight settles.
SpecDrain == Init /\ [][Next]_vars /\ WF_vars(DrainResponds)

\* The write queue when a request may hang: every other request is answered.
SpecHang == Init /\ [][HangNext]_vars /\ WF_vars(DrainResponds)

\* The extension of part_000 or part_001 with its generation interceptor.
InterceptorInit ==
    /\ settings \in InjectionSettingsSpace
    /\ QueueInit /\ HostInit /\ GenInit /\ IndexInit /\ StoreInit /\ NameInit /\ OtherInit
    /\ name2 \in Names
    /\ build \in Builds

InterceptorNext ==
    \/ \E msg \in HostMessages : HostAppend(msg)
    \/ qdrantMemoryInterceptor
    \/ \E k \in 1..Len(gens), o \in Outcomes : GenExistsResponds(k, o)
    \/ \E k \in 1..Len(gens), o \in Outcomes : GenCreateResponds(k, o)
    \/ \E k \in 1..Len(gens), o \in BodyOutcomes : GenEmbedResponds(k, o)
    \/ \E k \in 1..Len(gens), o \in BodyOutcomes, r \in SearchResults :
          GenSearchResponds(k, o, r)
    \/ \E key \in DOMAIN defaultSettings, e \in InjectionSettingsSpace :
          onSettingInput(key, e)

SpecInterceptor == InterceptorInit /\ [][InterceptorNext]_vars

\* The extension of index.js.
IndexJsInit ==
    /\ settings \in InjectionSettingsSpace
    /\ QueueInit /\ HostInit /\ GenInit /\ IndexInit /\ StoreInit /\ NameInit /\ OtherInit
    /\ name2 \in Names
    /\ build = "index.js"

IndexJsNext ==
    \/ \E msg \in HostMessages : HostAppend(msg)
    \/ IndexOnMessageSent
    \/ \E k \in 1..Len(tasks), o \in BodyOutcomes : IndexEmbedResponds(k, o)
    \/ \E k \in 1..Len(tasks), o \in BodyOutcomes, r \in SearchResults :
          IndexSearchResponds(k, o, r)
    \/ \E key \in DOMAIN defaultSettings, e \in InjectionSettingsSpace :
          onSettingInput(key, e)

SpecIndexJs == IndexJsInit /\ [][IndexJsNext]_vars

\* The change handler of the per-character checkbox, part_000:775-778,
\* which can run while calls are suspended.
onPerCharacterChange ==
    /\ nStoreCalls < MaxStoreCalls
    /\ nStoreCalls' = nStoreCalls + 1
    /\ settings' = [settings EXCEPT !.usePerCharacterCollections = ~@]
    /\ UNCHANGED <<stored, loaded>>
    /\ UNCHANGED <<collections, vectorParams, points, calls, lastSearch, lastEnsure>>
    /\ UNCHANGED <<queueVars, hostVars, genVars, indexVars, nameVars, autoVars, callVars>>

\* The extension of part_000 with the vector store it talks to.
StoreSpecInit ==
    /\ settings \in StoreSettingsSpace
    /\ QueueInit /\ HostInit /\ GenInit /\ IndexInit /\ StoreInit /\ NameInit /\ OtherInit
    /\ name2 = "Alice"
    /\ build = "part_000"

StoreNext ==
    \/ \E c \in StoreChars : \E m \in MessageIds(c) : CallSave(StoreText, c, TRUE, m)
    \/ \E c \in StoreChars : CallSearch(c)
    \/ \E c \in StoreChars : CallDelete(c)
    \/ \E k \in Ops, o \in Outcomes : StoreExistsResponds(k, o)
    \/ \E k \in Ops, o \in Outcomes : StoreCreateResponds(k, o)
    \/ \E k \in Ops, o \in BodyOutcomes : StoreEmbedResponds(k, o)
    \/ \E k \in Ops, o \in Outcomes : StoreUpsertResponds(k, o)
    \/ \E k \in Ops, o \in BodyOutcomes : StoreSearchResponds(k, o)
    \/ \E k \in Ops, o \in Outcomes : StoreDeleteResponds(k, o)
    \/ onPerCharacterChange

SpecStore == StoreSpecInit /\ [][StoreNext]_vars

\* The messages saved below: a message of the user with its id, the same
\* message after its text was edited, and a reply of the character without
\* an id.
RecordMessages ==
    { [text |-> "I love pizza", characterName |-> "Alice", isUser |-> TRUE,
       messageId |-> "x1"],
      [text |-> "I love pasta", characterName |-> "Alice", isUser |-> TRUE,
       messageId |-> "x1"],
      [text |-> "Pizza it is", characterName |-> "Alice", isUser |-> FALSE,
       messageId |-> ""] }

\* The requests of ensureCollection and of deleteCollection below reach the
\* store, which serves or refuses them.
Reaches == {"ok", "notok"}

\* part_000:647: the slider of the memory limit goes from 1 to 10.
MinMemoryLimit == 1

RecordSettingsSpace ==
    [ enabled               : {TRUE},
      collectionName        : {"mem"},
      openaiApiKey          : {"sk"},
      usePerCharacterCollections : BOOLEAN,
      memoryPosition        : {defaultSettings.memoryPosition},
      autoSaveMemories      : {defaultSettings.autoSaveMemories},
      saveUserMessages      : {defaultSettings.saveUserMessages},
      saveCharacterMessages : {defaultSettings.saveCharacterMessages},
      minMessageLength      : {defaultSettings.minMessageLength},
      memoryLimit           : {MinMemoryLimit, defaultSettings.memoryLimit},
      scoreThreshold        : {defaultSettings.scoreThreshold},
      embeddingModel        : {defaultSettings.embeddingModel} ]

\* Saves, searches and deletes of part_000 against the store, the saves with
\* their texts and speakers.
RecordsInit ==
    /\ settings \in RecordSettingsSpace
    /\ QueueInit /\ HostInit /\ GenInit /\ IndexInit /\ StoreInit /\ NameInit /\ OtherInit
    /\ name2 = "Alice"
    /\ build = "part_000"

RecordsNext ==
    \/ \E msg \in RecordMessages :
          CallSave(msg.text, msg.characterName, msg.isUser, msg.messageId)
    \/ \E c \in StoreChars : CallSearch(c)
    \/ \E c \in StoreChars : CallDelete(c)
    \/ \E k \in Ops, o \in Reaches : StoreExistsResponds(k, o)
    \/ \E k \in Ops, o \in Reaches : StoreCreateResponds(k, o)
    \/ \E k \in Ops, o \in Succeeds : StoreEmbedResponds(k, o)
    \/ \E k \in Ops, o \in Outcomes : StoreUpsertResponds(k, o)
    \/ \E k \in Ops, o \in BodyOutcomes : StoreSearchResponds(k, o)
    \/ \E k \in Ops, o \in Reaches : StoreDeleteResponds(k, o)

SpecRecords == RecordsInit /\ [][RecordsNext]_vars

(***************************************************************************)
(* Retrieval with scores: the search request of searchMemories             *)
(* (part_000:188-194) carries limit and score_threshold, and the store     *)
(* answers with the hits of the collection ranked by score.                *)
(***************************************************************************)

\* The scores, in hundredths, the store gives the points for a query.
ScoreValues == {20, 50, 90}

\* part_000:654: the slider of the relevance threshold goes up to 1.
RaisedScoreThreshold == 60

\* part_000:647: the slider of the memory limit goes up to 10.
MaxMemoryLimit == 10

\* Three records of Alice, saved by earlier calls of saveMessageToQdrant.
SavedPoints ==
    { Point("I love pizza", "Alice", TRUE, "x1", 1),
      Point("I love pasta", "Alice", TRUE, "x2", 2),
      Point("Pizza it is", "Alice", FALSE, "", 3) }

\* The hits of a set of points by descending score.
RECURSIVE Ranked(_, _)
Ranked(pts, scoring) ==
    IF pts = {} THEN <<>>
    ELSE LET best == CHOOSE q \in pts : \A r \in pts : scoring[q] >= scoring[r]
         IN <<[point |-> best, score |-> scoring[best]]>> \o Ranked(pts \ {best}, scoring)

\* The store serves the search request of part_000:188-194: the points that
\* pass the filter and score at least score_threshold, best first, at most
\* limit of them.
StoreSearch(pts, scoring, limit, threshold) ==
    LET ranked == Ranked({q \in pts : scoring[q] >= threshold}, scoring)
    IN SubSeq(ranked, 1, SmallerOf(limit, Len(ranked)))

\* The points of a list of hits.
HitPoints(hits) == {hits[i].point : i \in 1..Len(hits)}

\* The search of searchMemories, part_000:207-230, settles: the store scores
\* the points that pass the filter and the function returns data.result.
ScoredSearchResponds(outcome, scoring) ==
    /\ calls["search"].pc = "search"
    /\ LET a == calls["search"]
           c == a.collectionName
           answer == IF outcome \in {"ok", "malformed"}
                        /\ (c \notin collections \/ ~Fits("search"))
                     THEN "notok" ELSE outcome
           found == StoreSearch(Matching(points[c], a.filter), scoring, a.limit, a.threshold)
           returned == searchMemories(answer, found)
       IN /\ lastSearch' = [ended |-> TRUE,
                            cause |-> IF answer = "ok" THEN "searched" ELSE answer,
                            passed |-> IF answer = "ok"
                                       THEN {q \in Matching(points[c], a.filter) :
                                               scoring[q] >= a.threshold}
                                       ELSE {},
                            result |-> HitPoints(returned),
                            hits |-> returned,
                            threw |-> answer \in {"throw", "malformed"}
                                      /\ ~searchCatches(answer \in {"throw", "malformed"})]
          /\ calls' = [calls EXCEPT !["search"] = Idle]
    /\ UNCHANGED <<collections, vectorParams, points, lastEnsure, nStoreCalls>>
    /\ StoreFrame

RetrievalSettingsSpace ==
    [ enabled               : {TRUE},
      collectionName        : {"mem"},
      openaiApiKey          : {"sk"},
      usePerCharacterCollections : {TRUE},
      memoryPosition        : {defaultSettings.memoryPosition},
      autoSaveMemories      : {defaultSettings.autoSaveMemories},
      saveUserMessages      : {defaultSettings.saveUserMessages},
      saveCharacterMessages : {defaultSettings.saveCharacterMessages},
      minMessageLength      : {defaultSettings.minMessageLength},
      memoryLimit           : {MinMemoryLimit, MinMemoryLimit + 1, MaxMemoryLimit},
      scoreThreshold        : {defaultSettings.scoreThreshold, RaisedScoreThreshold},
      embeddingModel        : {defaultSettings.embeddingModel} ]

\* Searches of part_000 in a collection that holds the three records, while
\* the sliders of the limit and of the threshold are moved.
RetrievalInit ==
    /\ settings \in RetrievalSettingsSpace
    /\ QueueInit /\ HostInit /\ GenInit /\ IndexInit /\ NameInit /\ OtherInit
    /\ collections = {getCollectionName(settings, "Alice")}
    /\ points = [c \in CollectionNames |->
                    IF c = getCollectionName(settings, "Alice") THEN SavedPoints ELSE {}]
    /\ vectorParams = [c \in CollectionNames |->
                          IF c = getCollectionName(settings, "Alice")
                          THEN createVectors(getEmbeddingDimensions(settings))
                          ELSE NoVectors]
    /\ calls = [op \in Ops |-> Idle]
    /\ lastSearch = NoSearch
    /\ lastEnsure = NoEnsure
    /\ nStoreCalls = 0
    /\ name2 = "Alice"
    /\ build = "part_000"

RetrievalNext ==
    \/ CallSearch("Alice")
    \/ \E o \in Reaches : StoreExistsResponds("search", o)
    \/ \E o \in Succeeds : StoreEmbedResponds("search", o)
    \/ /\ calls["search"].pc = "search"
       /\ \E o \in BodyOutcomes :
             \E scoring \in [Matching(points[calls["search"].collectionName],
                                      calls["search"].filter) -> ScoreValues] :
                ScoredSearchResponds(o, scoring)
    \/ \E key \in {"memoryLimit", "scoreThreshold"}, e \in RetrievalSettingsSpace :
          onSettingInput(key, e)

SpecRetrieval == RetrievalInit /\ [][RetrievalNext]_vars

(***************************************************************************)
(* Saves and searches while the embedding model is changed in the panel    *)
(* (part_000:756-758).                                                     *)
(***************************************************************************)

\* The models of the select (part_000:635-637) and one the table of
\* getEmbeddingDimensions does not have, left by an older stored item.
EmbeddingModels ==
    {"text-embedding-3-large", "text-embedding-3-small", "text-embedding-ada-002",
     "mistral-embed"}

DimensionsSettingsSpace ==
    [ enabled               : {TRUE},
      collectionName        : {"mem"},
      openaiApiKey          : {"sk"},
      usePerCharacterCollections : {TRUE},
      memoryPosition        : {defaultSettings.memoryPosition},
      autoSaveMemories      : {defaultSettings.autoSaveMemories},
      saveUserMessages      : {defaultSettings.saveUserMessages},
      saveCharacterMessages : {defaultSettings.saveCharacterMessages},
      minMessageLength      : {defaultSettings.minMessageLength},
      memoryLimit           : {defaultSettings.memoryLimit},
      scoreThreshold        : {defaultSettings.scoreThreshold},
      embeddingModel        : EmbeddingModels ]

DimensionsInit ==
    /\ settings \in DimensionsSettingsSpace
    /\ QueueInit /\ HostInit /\ GenInit /\ IndexInit /\ StoreInit /\ NameInit /\ OtherInit
    /\ name2 = "Alice"
    /\ build = "part_000"

DimensionsNext ==
    \/ CallSave(StoreText, "Alice", TRUE, "x1")
    \/ CallSearch("Alice")
    \/ \E k \in Ops, o \in Reaches : StoreExistsResponds(k, o)
    \/ \E k \in Ops, o \in Reaches : StoreCreateResponds(k, o)
    \/ \E k \in Ops, o \in Reaches : StoreEmbedResponds(k, o)
    \/ \E k \in Ops, o \in Reaches : StoreUpsertResponds(k, o)
    \/ \E k \in Ops, o \in Reaches : StoreSearchResponds(k, o)
    \/ \E e \in DimensionsSettingsSpace : onSettingInput("embeddingModel", e)

SpecDimensions == DimensionsInit /\ [][DimensionsNext]_vars

\* getCollectionName and its sanitizing steps, on the names of CharacterNames.
NamesInit ==
    /\ settings \in NameSettingsSpace
    /\ QueueInit /\ HostInit /\ GenInit /\ IndexInit /\ StoreInit /\ OtherInit
    /\ nameArg \in CharacterNames
    /\ nameOut = NoNameOut
    /\ nApplied = 0
    /\ name2 = "Alice"
    /\ build = "part_000"

NamesNext ==
    \/ CallGetCollectionName
    \/ Sanitize
    \/ \E key \in {"usePerCharacterCollections"}, e \in NameSettingsSpace :
          onSettingInput(key, e)

SpecNames == NamesInit /\ [][NamesNext]_vars

(***************************************************************************)
(* Automatic memory creation (src/unnamed/part_000): onMessageSent under   *)
(* the event hooks and under the polling fallback.                         *)
(***************************************************************************)

\* The messages of the chat with their dates: the host dates message n of
\* the run with n. One text passes the default length test, one does not.
AutoMessages ==
    [is_user : BOOLEAN, is_system : {FALSE}, mes : {"ten chars!", "hi"},
     isQdrantMemory : {FALSE}, send_date : 1..MaxAppends]

\* part_000:460: `${characterName}_${lastMessage.send_date}_${chat.length}`.
lastMessageId(characterName, send_date, length) ==
    characterName \o "_" \o ToString(send_date) \o "_" \o ToString(length)

\* onMessageSent, part_000:447-463: the tests before queueMessage is called.
QueuesLast(seq) ==
    /\ settings.autoSaveMemories
    /\ name2 # ""
    /\ Len(seq) > 0
    /\ seq[Len(seq)].mes # ""

\* onMessageSent, part_000:446-470: queueMessage is called for the last
\* message of the chat.
onMessageSent ==
    IF QueuesLast(chat)
    THEN LET lastMessage == chat[Len(chat)]
         IN Enqueue(lastMessage.mes, name2, lastMessage.is_user,
                    lastMessageId(name2, lastMessage.send_date, Len(chat)))
    ELSE UNCHANGED <<uiVars, queueVars>>

\* The host appends a message to the chat; with the event hooks it emits
\* MESSAGE_RECEIVED or USER_MESSAGE_RENDERED for it (part_000:840-841), and
\* appends no other message before the handlers of the event have run.
AutoHostAppend(msg) ==
    /\ nAppends < MaxAppends
    /\ hooks => ~pending
    /\ msg.send_date = nAppends + 1
    /\ chat' = Append(chat, msg)
    /\ nAppends' = nAppends + 1
    /\ pending' = hooks
    /\ UNCHANGED <<uiVars, name2, queueVars, genVars, indexVars, storeVars, nameVars,
                   hooks, lastChatLength, callVars>>

\* The host shortens the chat: messages are deleted, or another chat is
\* opened.
HostShortensChat(n) ==
    /\ n < Len(chat)
    /\ ~pending
    /\ chat' = SubSeq(chat, 1, n)
    /\ UNCHANGED <<uiVars, name2, nAppends, queueVars, genVars, indexVars, storeVars,
                   nameVars, autoVars, callVars>>

\* part_000:840-841: the event is delivered to onMessageSent.
OnMessageEvent ==
    /\ hooks
    /\ pending
    /\ pending' = FALSE
    /\ onMessageSent
    /\ UNCHANGED <<hostVars, genVars, indexVars, storeVars, nameVars, hooks,
                   lastChatLength, callVars>>

\* part_000:847-855: one tick of the setInterval callback of the fallback.
Poll ==
    /\ ~hooks
    /\ IF settings.autoSaveMemories /\ Len(chat) > lastChatLength
       THEN /\ lastChatLength' = Len(chat)
            /\ onMessageSent
       ELSE UNCHANGED <<uiVars, queueVars, lastChatLength>>
    /\ UNCHANGED <<hostVars, genVars, indexVars, storeVars, nameVars, hooks, pending,
                   callVars>>

(***************************************************************************)
(* formatMemories called on lists of records (src/unnamed/part_000).       *)
(***************************************************************************)
MaxMemories == 2

\* How often the page is loaded in a run.
MaxLoads == 2

\* part_000:661: the slider of the memory position goes from 1 to 10.
MaxMemoryPosition == 10

RECURSIVE Repeat(_, _)
Repeat(ch, n) ==
    IF n = 0 THEN ""
    ELSE LET half == Repeat(ch, n \div 2)
         IN half \o half \o (IF n % 2 = 1 THEN ch ELSE "")

\* Texts of 100, 150, 151 and 200 characters; the characters after the
\* 150th differ from those before.
FormatTexts ==
    { Repeat("a", 100),
      Repeat("a", DisplayLength),
      Repeat("a", DisplayLength) \o "b",
      Repeat("a", DisplayLength) \o Repeat("b", 50) }

\* The records of a search response: the payload of saveMessageToQdrant
\* (part_000:295-301) with its speaker and text, or a payload without text.
FormatRecords ==
    [speaker : {"user", "character"}, text : FormatTexts, hasText : {TRUE}]
        \cup [speaker : {"user"}, text : {""}, hasText : {FALSE}]

\* The arguments of formatMemories: an undefined or null list, or a list.
MemoriesArgs ==
    {NoMemoriesArg} \cup [given : {TRUE}, list : SeqsUpTo(FormatRecords, MaxMemories)]

\* formatMemories(memoriesArg) is called, part_000:333-345: '' for a missing
\* list (334); payload.text.substring throws for a payload without text.
CallFormatMemories ==
    /\ ~formatted.called
    /\ formatted' =
          IF ~memoriesArg.given
          THEN [called |-> TRUE, threw |-> FALSE, out |-> ""]
          ELSE IF formatThrows(memoriesArg.list)
          THEN [called |-> TRUE, threw |-> TRUE, out |-> ""]
          ELSE [called |-> TRUE, threw |-> FALSE, out |-> formatMemories(memoriesArg.list)]
    /\ UNCHANGED <<gateway, memoriesArg>>
    /\ UNCHANGED <<uiVars, queueVars, hostVars, genVars, indexVars, storeVars, nameVars,
                   autoVars>>

FormatInit ==
    /\ settings = defaultSettings
    /\ QueueInit /\ HostInit /\ GenInit /\ IndexInit /\ StoreInit /\ NameInit
    /\ stored = NothingStored
    /\ loaded = FirstLoad(NothingStored)
    /\ AutoInit
    /\ gateway = NoGateway
    /\ memoriesArg \in MemoriesArgs
    /\ formatted = NoFormat
    /\ name2 = "Alice"
    /\ build = "part_000"

FormatNext == CallFormatMemories

SpecFormat == FormatInit /\ [][FormatNext]_vars

\* The extension of part_000 in a chat, with the event hooks or with the
\* polling fallback, every network call succeeding.
AutoSaveInit ==
    /\ settings \in SettingsSpace
    /\ QueueInit /\ HostInit /\ GenInit /\ IndexInit /\ StoreInit /\ NameInit
    /\ stored = NothingStored
    /\ loaded = FirstLoad(NothingStored)
    /\ hooks \in BOOLEAN
    /\ lastChatLength = 0
    /\ pending = FALSE
    /\ CallInit
    /\ name2 = "Alice"
    /\ build = "part_000"

AutoDrain ==
    \/ \E k \in 1..Len(drains), o \in ProbeSucceeds : ExistsResponds(k, o)
    \/ \E k \in 1..Len(drains), o \in Succeeds : CreateResponds(k, o)
    \/ \E k \in 1..Len(drains), o \in Succeeds : EmbedResponds(k, o)
    \/ \E k \in 1..Len(drains), o \in Succeeds : UpsertResponds(k, o)

AutoSaveNext ==
    \/ \E msg \in AutoMessages : AutoHostAppend(msg)
    \/ \E n \in 0..MaxAppends : HostShortensChat(n)
    \/ OnMessageEvent
    \/ Poll
    \/ AutoDrain

\* Every response arrives, every event is delivered, the timer keeps firing.
SpecAutoSave ==
    /\ AutoSaveInit
    /\ [][AutoSaveNext]_vars
    /\ WF_vars(AutoDrain)
    /\ WF_vars(OnMessageEvent)
    /\ WF_vars(Poll)

\* The settings the panel is used to set in the run below.
PanelSettingsSpace ==
    [ enabled               : BOOLEAN,
      collectionName        : {defaultSettings.collectionName},
      usePerCharacterCollections : {defaultSettings.usePerCharacterCollections},
      openaiApiKey          : {"sk"},
      memoryPosition        : {defaultSettings.memoryPosition},
      autoSaveMemories      : BOOLEAN,
      saveUserMessages      : {defaultSettings.saveUserMessages},
      saveCharacterMessages : {defaultSettings.saveCharacterMessages},
      minMessageLength      : {defaultSettings.minMessageLength},
      memoryLimit           : {defaultSettings.memoryLimit},
      scoreThreshold        : {defaultSettings.scoreThreshold},
      embeddingModel        : {defaultSettings.embeddingModel} ]

\* The extension of part_000 in a chat, with its settings panel: the
\* settings are loaded from what is stored (part_000:835, loadSettings):
\* nothing, or what an earlier session saved with the automatic saving on.
PanelInit ==
    /\ stored \in {NothingStored} \cup
                 {StoredItem(s) : s \in {p \in PanelSettingsSpace : p.autoSaveMemories}}
    /\ settings = loadSettings(stored)
    /\ loaded = FirstLoad(stored)
    /\ QueueInit /\ HostInit /\ GenInit /\ IndexInit /\ StoreInit /\ NameInit
    /\ hooks \in BOOLEAN
    /\ lastChatLength = 0
    /\ pending = FALSE
    /\ CallInit
    /\ name2 = "Alice"
    /\ build = "part_000"

\* The messages of the run: long enough to be saved, of either speaker.
PanelMessages == {msg \in AutoMessages : msg.mes = "ten chars!" /\ msg.send_date = 1}

PanelNext ==
    \/ \E msg \in PanelMessages : AutoHostAppend(msg)
    \/ OnMessageEvent
    \/ Poll
    \/ AutoDrain
    \/ qdrantMemoryInterceptor
    \/ \E k \in 1..Len(gens), o \in ProbeSucceeds : GenExistsResponds(k, o)
    \/ \E k \in 1..Len(gens), o \in Succeeds : GenCreateResponds(k, o)
    \/ \E k \in 1..Len(gens), o \in Succeeds : GenEmbedResponds(k, o)
    \/ \E k \in 1..Len(gens), o \in Succeeds, r \in SearchResults :
          GenSearchResponds(k, o, r)
    \/ \E key \in DOMAIN defaultSettings, e \in PanelSettingsSpace :
          onSettingInput(key, e)
    \/ onSaveClick

SpecPanel == PanelInit /\ [][PanelNext]_vars

\* The settings the panel is used to set in the run below: an API key that
\* reads like a JSON literal, a position of two digits.
RoundTripSettingsSpace ==
    [ enabled               : BOOLEAN,
      collectionName        : {defaultSettings.collectionName},
      usePerCharacterCollections : {defaultSettings.usePerCharacterCollections},
      openaiApiKey          : {"", "true", "sk-key"},
      memoryPosition        : {1, MaxMemoryPosition},
      autoSaveMemories      : BOOLEAN,
      saveUserMessages      : {defaultSettings.saveUserMessages},
      saveCharacterMessages : {defaultSettings.saveCharacterMessages},
      minMessageLength      : {defaultSettings.minMessageLength},
      memoryLimit           : {defaultSettings.memoryLimit},
      scoreThreshold        : {defaultSettings.scoreThreshold},
      embeddingModel        : {defaultSettings.embeddingModel} ]

\* part_000:18: the keys of the settings before version 3.0.
OlderKeys ==
    {"enabled", "collectionName", "openaiApiKey", "memoryPosition", "memoryLimit",
     "scoreThreshold"}

\* What localStorage can hold when the page is first loaded: nothing, an item
\* that is no JSON, an item of an older version without the newer keys.
InitiallyStored ==
    {NothingStored, InvalidItem}
        \cup {StoredFields(s, OlderKeys) : s \in RoundTripSettingsSpace}

\* The page is loaded again, part_000:27 and 834-835: the settings start as
\* the defaults and loadSettings runs. The rest of the module state starts
\* anew, which in the runs below it never left.
Restart ==
    /\ loaded.n < MaxLoads
    /\ settings' = loadSettings(stored)
    /\ loaded' = [outcome |-> loadOutcome(stored), n |-> loaded.n + 1]
    /\ UNCHANGED stored
    /\ UNCHANGED <<queueVars, hostVars, genVars, indexVars, storeVars, nameVars, autoVars, callVars>>

\* The settings panel, the save button and the page loads of part_000.
SettingsInit ==
    /\ stored \in InitiallyStored
    /\ settings = loadSettings(stored)
    /\ loaded = FirstLoad(stored)
    /\ QueueInit /\ HostInit /\ GenInit /\ IndexInit /\ StoreInit /\ NameInit
    /\ AutoInit
    /\ CallInit
    /\ name2 = "Alice"
    /\ build = "part_000"

SettingsNext ==
    \/ \E key \in DOMAIN defaultSettings, e \in RoundTripSettingsSpace :
          onSettingInput(key, e)
    \/ onSaveClick
    \/ Restart

SpecSettings == SettingsInit /\ [][SettingsNext]_vars

\* The gateway functions called one at a time against the store.
GatewayInit ==
    /\ settings \in StoreSettingsSpace
    /\ QueueInit /\ HostInit /\ GenInit /\ IndexInit /\ StoreInit /\ NameInit /\ OtherInit
    /\ name2 = "Alice"
    /\ build = "part_000"

GatewayNext ==
    \/ \E c \in CollectionNames, o \in Outcomes : CallCollectionExists(c, o)
    \/ \E c \in CollectionNames, o \in Outcomes : CallCreateCollection(c, o)
    \/ \E c \in CollectionNames, o \in BodyOutcomes : CallGetCollectionInfo(c, o)
    \/ \E c \in CollectionNames, o \in Outcomes : CallDeleteCollection(c, o)
    \/ \E o \in EmbedOutcomes : CallGenerateEmbedding(o)

SpecGateway == GatewayInit /\ [][GatewayNext]_vars

(***************************************************************************)
(* Properties of the write queue.                                          *)
(***************************************************************************)

InQueue(q, messageId, characterName) ==
    \E i \in 1..Len(q) : PairOf(q[i]) = <<messageId, characterName>>

\* C1: while an item of a (messageId, characterName) pair is queued or in
\* flight, further queueMessage calls for the pair add no upsert: exactly one
\* upsert request is issued for the pair, also when the second call arrives
\* while the first item is in flight, shifted out of saveQueue.
C1_OneUpsertPerMessage == \A p \in Pairs : upsertCount[p] <= 1

QueueUnique(q) ==
    \A i, j \in 1..Len(q) : i # j => PairOf(q[i]) # PairOf(q[j])

\* C2: saveQueue holds at most one item per (messageId, characterName) pair,
\* and a queueMessage call whose pair is that of an item in saveQueue leaves
\* the queue unchanged.
C2_QueueHoldsOnePerPair ==
    [][/\ QueueUnique(saveQueue')
       /\ \A t \in Texts, c \in Chars, u \in BOOLEAN, m \in Ids :
            (queueMessage(t, c, u, m) /\ InQueue(saveQueue, m, c))
                => saveQueue' = saveQueue]_vars

C2_DuplicateDropped ==
    /\ lastCall = "duplicate"
    /\ Len(saveQueue) >= 1

\* The items with a request pending, and those waiting, by sequence number.
OrderInv ==
    /\ Len(drains) <= 1
    /\ \A k \in 1..Len(drains) : drains[k].item.seq = lastShifted
    /\ \A i \in 1..Len(saveQueue) : saveQueue[i].seq = lastShifted + i
    /\ lastUpsert <= lastShifted

\* C3: items are processed in enqueue order: the loop shifts item k+1 only
\* when no request of item k is pending, requests are only ever pending for
\* the one item shifted last, and upsert requests are issued in the order the
\* items were enqueued.
C3_EnqueueOrder ==
    [][/\ OrderInv'
       /\ lastShifted' \in {lastShifted, lastShifted + 1}
       /\ lastUpsert' # lastUpsert =>
              (lastUpsert' > lastUpsert /\ lastUpsert' = lastShifted)]_vars

C3_SecondUpsertAfterFirst ==
    /\ lastUpsert >= 2
    /\ Len(saveQueue) >= 1

\* C4: at most one activation of processSaveQueue is inside its while loop,
\* hence at most one saveMessageToQdrant call is in flight, and the flag is
\* set exactly while it is.
C4_OneDrainLoop ==
    /\ Len(drains) <= 1
    /\ processingSaveQueue <=> (Len(drains) = 1)

C4_CallDuringDrain ==
    /\ Len(drains) = 1
    /\ nDrains = 1
    /\ Len(saveQueue) >= 2

\* C5: no item is left in saveQueue while processingSaveQueue is false and
\* no drain loop is running.
C5_NoLostWakeUp ==
    saveQueue # <<>> => (processingSaveQueue /\ Len(drains) >= 1)

C5_PickedUpBySameLoop ==
    /\ nDrains = 1
    /\ lastShifted >= 2
    /\ Len(drains) = 1
    /\ saveQueue = <<>>

\* C6: a failed save aborts only its item: once no save is in flight the
\* flag is reset, the queue is empty and every accepted item was attempted,
\* whatever failed before.
C6_FailureAbortsOnlyItem ==
    /\ lastFailed <= lastShifted
    /\ Len(drains) = 0 =>
          /\ ~processingSaveQueue
          /\ saveQueue = <<>>
          /\ lastShifted = nAccepted

C6_AttemptedAfterFailure ==
    /\ Len(drains) = 0
    /\ lastFailed >= 1
    /\ lastUpsert > lastFailed
    /\ lastShifted = nAccepted

\* The conditions under which the call is a no-op.
Rejected(t, c, u, m) ==
    \/ ~settings.autoSaveMemories
    \/ settings.openaiApiKey = ""
    \/ Len(t) < settings.minMessageLength
    \/ (u /\ ~settings.saveUserMessages)
    \/ (~u /\ ~settings.saveCharacterMessages)
    \/ InQueue(saveQueue, m, c)

\* The item a drain activation started in this step took from the queue.
TakenInStep ==
    IF Len(drains') > Len(drains) THEN <<drains'[Len(drains')].item>> ELSE <<>>

\* C7: queueMessage appends the item to the tail of saveQueue exactly when
\* none of the rejecting conditions holds; otherwise saveQueue is unchanged
\* and no request is issued.
C7_AppendsIffPolicy ==
    [][\A t \in Texts, c \in Chars, u \in BOOLEAN, m \in Ids :
         queueMessage(t, c, u, m) =>
            IF Rejected(t, c, u, m)
            THEN /\ saveQueue' = saveQueue
                 /\ drains' = drains
                 /\ processingSaveQueue' = processingSaveQueue
            ELSE TakenInStep \o saveQueue' =
                    Append(saveQueue, [text |-> t, characterName |-> c, isUser |-> u,
                                       messageId |-> m, seq |-> nAccepted'])]_vars

C7_AcceptedAndRejected ==
    /\ nAccepted >= 2
    /\ lastCall = "policy"
    /\ Len(saveQueue) >= 1

(***************************************************************************)
(* Properties of the collection names.                                     *)
(***************************************************************************)

\* C14: with base name mem and per-character mode on, getCollectionName
\* returns mem_dr_smith for "Dr. Smith" and mem_neko_chan for "Neko-chan!".
C14_DocumentedExamples ==
    (nameOut.called /\ nameOut.base = "mem" /\ nameOut.perCharacter) =>
        /\ nameArg = "Dr. Smith" => nameOut.value = "mem_dr_smith"
        /\ nameArg = "Neko-chan!" => nameOut.value = "mem_neko_chan"

\* A character that stays in the suffix as it is, once lowercased: a letter,
\* a digit or a hyphen.
IsWordChar(ch) ==
    LowerChar(ch) \in CharsOf(LowerCase) \cup CharsOf(Digits) \cup {"-"}

RECURSIVE JoinedWords(_, _, _)
\* The suffix the claim describes, read off the name position by position:
\* its letters, digits and hyphens lowercased, with one "_" between two of
\* them that are not neighbours in the name.
JoinedWords(str, i, lastWord) ==
    IF i > Len(str) THEN ""
    ELSE IF IsWordChar(SubSeq(str, i, i))
    THEN (IF lastWord > 0 /\ lastWord < i - 1 THEN "_" ELSE "")
         \o LowerChar(SubSeq(str, i, i)) \o JoinedWords(str, i + 1, i)
    ELSE JoinedWords(str, i + 1, lastWord)

HasDoubleUnderscore(str) ==
    \E i \in 1..(Len(str) - 1) : SubSeq(str, i, i + 1) = "__"

C16_SanitizeIdempotent ==
    [][(Sanitize /\ nApplied >= 1) => nameArg' = nameArg]_vars

C16_SanitizedTwice ==
    /\ nApplied = 2
    /\ nameArg = "dr_smith"

(***************************************************************************)
(* Properties of the store and of retrieval.                               *)
(***************************************************************************)

\* C11: in per-character mode a retrieval for one character never returns a
\* record saved for another, also when both names sanitize to the same
\* collection suffix.
C11_PerCharacterIsolation ==
    [][\A o \in BodyOutcomes :
         ( /\ StoreSearchResponds("search", o)
           /\ calls["search"].perCharacter
           /\ calls["search"].filter = NoFilter )
         => \A q \in lastSearch'.result :
               q.character = calls["search"].characterName]_vars

C13_EnsureReturnsExistence ==
    lastEnsure.ended => (lastEnsure.value <=> lastEnsure.exists)

\* C17: searchMemories returns the empty list and issues no request when
\* settings.enabled is false.
C17_DisabledSearchIsLocal ==
    [][\A c \in StoreChars :
         (CallSearch(c) /\ ~settings.enabled) =>
            /\ calls' = calls
            /\ collections' = collections /\ points' = points
            /\ lastSearch'.ended /\ lastSearch'.result = {}]_vars

C17_DisabledSearchReturned ==
    /\ ~settings.enabled
    /\ lastSearch.ended
    /\ lastSearch.cause = "disabled"
    /\ \E c \in CollectionNames : points[c] # {}

\* An activation of searchMemories has returned the empty list in the step.
ReturnedEmpty ==
    /\ calls'["search"] = Idle
    /\ lastSearch'.ended /\ lastSearch'.result = {} /\ ~lastSearch'.threw

\* C18: retrieval degrades to an empty result and never throws:
\* searchMemories returns [] when ensureCollection returned false, when the
\* embedding is null, when the search response is non-OK and when a call
\* throws, and it sends no search request after a failed ensure or a null
\* embedding.
C18_RetrievalDegrades ==
    [][/\ ~lastSearch'.threw
       /\ lastSearch'.cause # "searched" => lastSearch'.result = {}
       /\ \A o \in Outcomes :
            (StoreCreateResponds("search", o) /\ ~lastEnsure'.value) => ReturnedEmpty
       /\ \A o \in Outcomes :
            (StoreExistsResponds("search", o) /\ calls'["search"].pc # "create"
                /\ settings.openaiApiKey = "") => ReturnedEmpty
       /\ \A o \in BodyOutcomes :
            (StoreEmbedResponds("search", o) /\ o # "ok") => ReturnedEmpty
       /\ \A o \in BodyOutcomes :
            (StoreSearchResponds("search", o) /\ o # "ok") => ReturnedEmpty]_vars

C18_EnsureFailedOnConflict ==
    /\ lastSearch.ended
    /\ lastSearch.cause = "ensure"
    /\ lastEnsure.create = "conflict"
    /\ settings.openaiApiKey # ""

\* C19: the search request carries a filter that requires the payload field
\* character to equal the queried character name exactly when per-character
\* mode is off, and that field is the one saveMessageToQdrant writes: a
\* retrieval for a character whose request was built in shared mode (the
\* setting read as off at line 196) returns only records saved for that
\* character.
C19_FilterIffShared ==
    [][/\ \A o \in BodyOutcomes :
            (StoreEmbedResponds("search", o) /\ calls'["search"].pc = "search") =>
                calls'["search"].filter =
                    IF ~settings.usePerCharacterCollections
                    THEN [key |-> "character", value |-> calls["search"].characterName]
                    ELSE NoFilter
       /\ \A o \in BodyOutcomes :
            (StoreSearchResponds("search", o) /\ calls["search"].filter # NoFilter) =>
                \A q \in lastSearch'.result :
                    q.character = calls["search"].characterName]_vars

C19_SharedHoldsTwoCharacters ==
    /\ ~settings.usePerCharacterCollections
    /\ \E q1, q2 \in points["mem"] : q1.character # q2.character
    /\ lastSearch.cause = "searched"
    /\ lastSearch.result # {}

(***************************************************************************)
(* Properties of the injection.                                            *)
(***************************************************************************)

\* C8: no operation of the extension inserts, removes or alters an entry of
\* the persisted chat history: the chat array of getContext() changes only
\* when the host appends a message.
C8_HistoryNotMutated ==
    [][chat' = chat \/ \E msg \in HostMessages : HostAppend(msg)]_vars

\* C9: injection is idempotent: an injection step run on the sequence the
\* previous injection step left, with the same retrieved memories, leaves
\* that sequence unchanged.
C9_InjectionIdempotent ==
    [][\A k \in 1..Len(tasks), o \in BodyOutcomes, r \in SearchResults :
         ( /\ IndexSearchResponds(k, o, r)
           /\ Len(searchMemories(o, r)) > 0
           /\ searchMemories(o, r) = lastInjection.memories
           /\ chat = lastInjection.after )
         => chat' = chat]_vars

\* C10: the interceptor never aborts generation: whatever its network calls
\* return, its promise is resolved, never rejected, and the abort handle is
\* not called.
C10_NeverAbortsGeneration ==
    /\ genResult.result # "rejected"
    /\ ~abortCalled

C10_MalformedRecordSurvived ==
    /\ genResult.cause = "format"
    /\ genResult.result = "resolved"
    /\ nGens >= 1

\* The sequence the interceptor call of activation k was passed has, in the
\* step, got exactly one system entry at index max(0, L - memoryPosition), L
\* being its length: the index lies in 0..L and the other entries are the
\* original ones in their order.
InsertedOne(k) ==
    LET L == Len(gens[k].chat)
        d == L - settings.memoryPosition
        index == IF d > 0 THEN d ELSE 0
    IN /\ index >= 0 /\ index <= L
       /\ Len(sent') = L + 1
       /\ sent'[index + 1].is_system /\ ~sent'[index + 1].is_user
       /\ \A i \in 1..index : sent'[i] = gens[k].chat[i]
       /\ \A i \in (index + 1)..L : sent'[i + 1] = gens[k].chat[i]

\* C20 as stated: when retrieval yields at least one memory, the interceptor
\* inserts exactly one synthetic entry at index max(0, L - memoryPosition).
C20_OneEntryForAnyMemories ==
    [][\A k \in 1..Len(gens), o \in BodyOutcomes, r \in SearchResults :
         (GenSearchResponds(k, o, r) /\ Len(searchMemories(o, r)) > 0)
            => InsertedOne(k)]_vars

\* C20, amended: when retrieval yields at least one memory and every
\* retrieved record has a payload text, the interceptor inserts exactly one
\* synthetic entry at index max(0, L - memoryPosition), which lies in 0..L,
\* the sequence grows by one and the original entries keep their order; a
\* record without payload text leaves the sequence as it was passed.
C20_OneEntryAtClampedIndex ==
    [][\A k \in 1..Len(gens) : gens[k].pc = "search" =>
         \A o \in BodyOutcomes, r \in SearchResults :
            (Len(searchMemories(o, r)) > 0 /\ GenSearchResponds(k, o, r)) =>
               IF \A i \in 1..Len(searchMemories(o, r)) : searchMemories(o, r)[i].hasText
               THEN InsertedOne(k)
               ELSE sent' = gens[k].chat]_vars

C20_InsertedAtClampedIndex ==
    /\ genResult.cause = "injected"
    /\ Len(sent) = 2
    /\ settings.memoryPosition = 3
    /\ sent[1].is_system
    /\ sent[2].is_user

(***************************************************************************)
(* Properties of the degraded paths.                                       *)
(***************************************************************************)

\* C22: with no API key set, a retrieval issues no request that changes the
\* vector store: no step of a searchMemories call creates a collection or
\* writes a point.
C22_MissingKeyIsNoOp ==
    [][(/\ settings.openaiApiKey = ""
        /\ calls["search"].pc # "idle"
        /\ calls'["search"] # calls["search"])
          => (collections' = collections /\ points' = points)]_vars

\* The requests of one save in the order saveMessageToQdrant issues them.
Rank(pc) ==
    CASE pc = "exists" -> 1
      [] pc = "create" -> 2
      [] pc = "embed"  -> 3
      [] pc = "upsert" -> 4
      [] OTHER         -> 5

SeqsOf(q) == {q[i].seq : i \in 1..Len(q)}

DrainSeqs(ds) == {ds[k].item.seq : k \in 1..Len(ds)}

\* C24: there are no retries: a save moves only forward through its requests
\* (probe, create, embedding, upsert), so that it issues each at most once;
\* upsert requests are issued for items of strictly increasing sequence
\* numbers; and an item that left saveQueue or the drain loop, its save
\* failed or not, is never put back.
C24_NoRetries ==
    [][/\ \A k \in 1..Len(drains), j \in 1..Len(drains') :
            drains'[j].item.seq = drains[k].item.seq =>
                \/ drains'[j] = drains[k]
                \/ Rank(drains'[j].pc) > Rank(drains[k].pc)
       /\ lastUpsert' # lastUpsert => lastUpsert' > lastUpsert
       /\ SeqsOf(saveQueue') \subseteq SeqsOf(saveQueue) \cup {nAccepted + 1}
       /\ DrainSeqs(drains') \subseteq
              DrainSeqs(drains) \cup SeqsOf(saveQueue) \cup {nAccepted + 1}
       /\ \A i \in 1..Len(saveQueue') : saveQueue'[i].seq # lastFailed']_vars

C24_FailedItemNotRetried ==
    /\ lastFailed >= 1
    /\ lastUpsert > lastFailed
    /\ saveQueue = <<>>
    /\ drains = <<>>

(***************************************************************************)
(* Properties of the gateway functions.                                    *)
(***************************************************************************)

Failure(answer) == answer \in {"notok", "throw"}

\* C26: no gateway operation throws to its caller: on a rejected fetch or a
\* non-success response collectionExists, createCollection and
\* deleteCollection return false and getCollectionInfo returns null, and
\* collectionExists returns true only for a success response.
C26_GatewayNeverThrows ==
    /\ ~gateway.threw
    /\ (gateway.op \in {"collectionExists", "createCollection", "deleteCollection"}
            /\ Failure(gateway.outcome)) => gateway.value = "false"
    /\ (gateway.op = "getCollectionInfo" /\ Failure(gateway.outcome))
            => gateway.value = "null"
    /\ (gateway.op = "collectionExists" /\ gateway.value = "true")
            => gateway.outcome = "ok"

C26_DeleteRejected ==
    /\ gateway.op = "deleteCollection"
    /\ gateway.outcome = "throw"
    /\ gateway.value = "false"
    /\ collections # {}

\* C27: generateEmbedding returns null, without throwing, when the API key is
\* empty (with no request), when the response is non-OK, when the body has
\* no embedding and when the request fails; it issues at most one request.
C27_EmbeddingNullOnFailure ==
    gateway.op = "generateEmbedding" =>
        /\ ~gateway.threw
        /\ gateway.requests <= 1
        /\ gateway.outcome = "nokey" => gateway.requests = 0
        /\ gateway.outcome # "ok" => gateway.value = "null"

(***************************************************************************)
(* Properties of formatMemories.                                           *)
(***************************************************************************)

Header == "\n[Retrieved from past conversations]\n"

\* The bullet the claim describes for a record.
ExpectedBullet(memory) ==
    LET label == IF memory.speaker = "user" THEN "You said" ELSE "Character said"
        shown == IF Len(memory.text) <= 150 THEN memory.text
                 ELSE SubSeq(memory.text, 1, 150) \o "..."
    IN "* " \o label \o ": \"" \o shown \o "\"\n"

RECURSIVE OffsetOf(_, _)
\* The number of characters before the bullet of record i.
OffsetOf(list, i) ==
    IF i = 1 THEN Len(Header)
    ELSE OffsetOf(list, i - 1) + Len(ExpectedBullet(list[i - 1]))

\* The output is the header followed by the bullets of the records in the
\* order of the list, and nothing else.
HeaderAndBullets(out, list) ==
    /\ SubSeq(out, 1, Len(Header)) = Header
    /\ \A i \in 1..Len(list) :
          SubSeq(out, OffsetOf(list, i) + 1,
                 OffsetOf(list, i) + Len(ExpectedBullet(list[i])))
              = ExpectedBullet(list[i])
    /\ Len(out) = OffsetOf(list, Len(list) + 1)

\* C30 as stated: formatMemories returns '' for an empty or missing list and
\* for every other list the header followed by one bullet per record.
C30_BulletPerRecord ==
    formatted.called =>
        /\ ~formatted.threw
        /\ IF ~memoriesArg.given \/ memoriesArg.list = <<>>
           THEN formatted.out = ""
           ELSE HeaderAndBullets(formatted.out, memoriesArg.list)

\* C30, amended: formatMemories returns '' for an empty or missing list; for
\* a list whose records all have a payload text it returns the header
\* followed by exactly one bullet per record in the order received, the text
\* unmodified up to 150 characters and cut to 150 characters plus "..."
\* beyond, labelled 'You said' for speaker user and 'Character said'
\* otherwise; for a list with a record without payload text it throws.
C30_BulletPerRecordWithText ==
    formatted.called =>
        IF ~memoriesArg.given \/ memoriesArg.list = <<>>
        THEN ~formatted.threw /\ formatted.out = ""
        ELSE IF \A i \in 1..Len(memoriesArg.list) : memoriesArg.list[i].hasText
        THEN ~formatted.threw /\ HeaderAndBullets(formatted.out, memoriesArg.list)
        ELSE formatted.threw

C30_LongAfterShort ==
    /\ formatted.called /\ ~formatted.threw
    /\ Len(memoriesArg.list) = 2
    /\ Len(memoriesArg.list[1].text) = 100
    /\ memoriesArg.list[1].speaker = "character"
    /\ Len(memoriesArg.list[2].text) = 200
    /\ memoriesArg.list[2].speaker = "user"

(***************************************************************************)
(* Properties of the automatic memory creation.                            *)
(***************************************************************************)

\* Message n of the run is in the chat and passes the save policy.
AppendedSavable(n) ==
    \E i \in 1..Len(chat) :
        /\ chat[i].send_date = n
        /\ name2 # ""
        /\ PassesSavePolicy(settings, chat[i].mes, chat[i].is_user)

\* The upsert request of message n is issued.
UpsertIssued(n) ==
    \E k \in 1..Len(drains), len \in 1..MaxAppends :
        /\ drains[k].pc = "upsert"
        /\ drains[k].item.messageId = lastMessageId(name2, n, len)

\* C21: with auto-save on, an API key set and the save policy satisfied,
\* every message appended to the chat (and not deleted from it) is
\* eventually upserted when all network calls succeed, under the event hooks
\* and under the polling fallback.
C21_EveryMessageSaved ==
    \A n \in 1..MaxAppends : <>[]AppendedSavable(n) => <>UpsertIssued(n)

\* C25: a request that never returns blocks only the save of its own item:
\* the other items of saveQueue, queued before or after the hang, are still
\* taken by the drain loop and written.
C25_HangBlocksOnlyItsItem ==
    \A n \in 1..MaxCalls :
        (\E i \in 1..Len(saveQueue) : saveQueue[i].seq = n) ~> (lastShifted >= n)

(***************************************************************************)
(* Properties of the settings.                                             *)
(***************************************************************************)

\* C29: settings are changed only by the handlers of the settings panel: no
\* step of onMessageSent, queueMessage, the drain loop, searchMemories or
\* the interceptor writes a settings field; the stored settings change only
\* when saveSettings is called, to the settings of that moment, and an edit
\* in the panel leaves the stored settings as they are.
C29_SettingsWrittenByPanelOnly ==
    [][/\ settings' # settings =>
            /\ \E key \in DOMAIN defaultSettings :
                  /\ settings'[key] # settings[key]
                  /\ \A other \in DOMAIN defaultSettings \ {key} :
                        settings'[other] = settings[other]
            /\ stored' = stored
            /\ UNCHANGED <<queueVars, hostVars, genVars, indexVars, storeVars, autoVars>>
       /\ stored' # stored =>
            /\ stored' = StoredItem(settings)
            /\ settings' = settings
            /\ UNCHANGED <<queueVars, hostVars, genVars, indexVars, storeVars, autoVars>>]_vars

C29_EditedAfterSave ==
    /\ stored.item
    /\ settings # loadSettings(stored)
    /\ settings.autoSaveMemories /\ ~loadSettings(stored).autoSaveMemories
    /\ nAccepted >= 1
    /\ genResult.cause = "injected"

(***************************************************************************)
(* Properties of the records of the store.                                 *)
(***************************************************************************)

\* C23: once a record is written, its vector and its character never
\* change: while its collection is not deleted, no step alters the vector or
\* the character stored under a point id that exists.
C23_VectorAndCharacterImmutable ==
    [][\A c \in CollectionNames :
         (c \in collections /\ c \in collections') =>
            \A q \in points[c], r \in points'[c] :
               q.id = r.id => (q.vector = r.vector /\ q.character = r.character)]_vars

\* The upsert of the save in flight is accepted by the store.
SaveSucceeds ==
    /\ calls["save"].pc = "upsert"
    /\ calls["save"].collectionName \in collections
    /\ StoreUpsertResponds("save", "ok")

\* A successful save has written exactly one point, with the id of the
\* message or an id no point has, and with the text, the speaker and the
\* character of the message, into the collection of the character.
OnePointUpserted ==
    LET a == calls["save"]
        c == getCollectionName(settings, a.characterName)
    IN \E q \in points'[c] :
          /\ a.messageId # "" => q.id = a.messageId
          /\ a.messageId = "" => \A d \in CollectionNames : \A r \in points[d] : r.id # q.id
          /\ q.text = a.text
          /\ q.speaker = (IF a.isUser THEN "user" ELSE "character")
          /\ q.character = a.characterName
          /\ points' = [points EXCEPT ![c] = {r \in @ : r.id # q.id} \cup {q}]

\* A retrieval has returned what the store found.
SearchSucceeds ==
    /\ calls["search"].pc = "search"
    /\ lastSearch'.cause = "searched"
    /\ StoreSearchResponds("search", "ok")

\* C28 as stated: a successful save upserts exactly one point, with the id
\* of the message or a fresh one, the text, the speaker and the character,
\* into the collection of the character; a later retrieval returns every
\* record whose score is at or above the threshold.
C28_SavedThenReturned ==
    [][/\ SaveSucceeds => OnePointUpserted
       /\ SearchSucceeds => \A q \in lastSearch'.passed : q \in lastSearch'.result]_vars

\* C28, amended: a successful save upserts exactly one point, with the id
\* of the message or a fresh one, the text, the speaker and the character,
\* into the collection of the character; a later retrieval returns records
\* whose score is at or above the threshold, memoryLimit of them or all of
\* them when they are fewer, so it returns the record when at most
\* memoryLimit records pass.
C28_SavedThenReturnedWithinLimit ==
    [][/\ SaveSucceeds => OnePointUpserted
       /\ SearchSucceeds =>
            /\ lastSearch'.result \subseteq lastSearch'.passed
            /\ Cardinality(lastSearch'.result) =
                 SmallerOf(settings.memoryLimit, Cardinality(lastSearch'.passed))
            /\ Cardinality(lastSearch'.passed) <= settings.memoryLimit =>
                 lastSearch'.result = lastSearch'.passed]_vars

C28_OneOfTwoReturned ==
    /\ lastSearch.cause = "searched"
    /\ Cardinality(lastSearch.passed) = 2
    /\ Cardinality(lastSearch.result) = 1
    /\ \E q \in lastSearch.result : q.messageId = "" /\ q.speaker = "character"

(***************************************************************************)
(* Properties of the search request under a change of the collection mode. *)
(***************************************************************************)

\* C36: every search request sent to the shared base collection carries the
\* filter on the character, also when usePerCharacterCollections is toggled
\* while searchMemories waits between resolving the collection name and
\* building the request.
C36_SharedSearchAlwaysFiltered ==
    (calls["search"].pc = "search" /\ calls["search"].collectionName = settings.collectionName)
        => calls["search"].filter =
             [key |-> "character", value |-> calls["search"].characterName]

(***************************************************************************)
(* Properties of queueMessage without a message id.                        *)
(***************************************************************************)

\* C37: a save request with no messageId is never dropped by the duplicate
\* check: a queueMessage call without messageId that passes the save policy
\* is accepted, also while an earlier one for the same character with
\* another text waits in saveQueue.
C37_NoIdNeverDropped ==
    [][\A t \in LongTexts, c \in Chars, u \in BOOLEAN :
         (/\ PassesSavePolicy(settings, t, u)
          /\ \A i \in 1..Len(saveQueue) : saveQueue[i].text # t
          /\ queueMessage(t, c, u, NoMessageId))
            => lastCall' = "accepted"]_vars

(***************************************************************************)
(* Termination of the drain loop.                                          *)
(***************************************************************************)

\* C38: when every network call eventually returns and queueMessage stops
\* being called, the system comes to rest with saveQueue empty,
\* processingSaveQueue false and no save in flight, every accepted item
\* shifted; the items are shifted one by one in the order accepted, so each
\* was attempted exactly once.
C38_DrainTerminates ==
    /\ <>[](/\ saveQueue = <<>>
            /\ ~processingSaveQueue
            /\ drains = <<>>
            /\ lastShifted = nAccepted)
    /\ [][lastShifted' # lastShifted => lastShifted' = lastShifted + 1]_vars

C38_AllDrained ==
    /\ saveQueue = <<>>
    /\ ~processingSaveQueue
    /\ drains = <<>>
    /\ nAccepted = MaxCalls
    /\ lastShifted = nAccepted
    /\ lastUpsert = nAccepted

(***************************************************************************)
(* Properties of onMessageSent of index.js after its own injection.        *)
(***************************************************************************)

\* C33: in index.js, onMessageSent searches and injects only when a message
\* was appended since the call it last processed: when the chat is what the
\* last injection left, longer than the processed length by the inserted
\* memory entry alone, an event starts no search.
C33_OwnEntryStartsNoSearch ==
    [][( /\ build = "index.js"
         /\ Len(lastInjection.memories) > 0
         /\ chat = lastInjection.after
         /\ Len(chat) = lastProcessedLength + 1
         /\ IndexOnMessageSent )
         => tasks' = tasks]_vars

(***************************************************************************)
(* Frame of the generation interceptor.                                    *)
(***************************************************************************)

\* The sequence has a user message with a text.
HasUserText(seq) == \E i \in 1..Len(seq) : seq[i].is_user /\ seq[i].mes # ""

\* How a search ends that gave the interceptor no memories: an empty result,
\* or a request that failed.
NoMemoriesCauses == {"nomemories"} \cup (BodyOutcomes \ {"ok"})

\* C34: the interceptor leaves the sequence it is passed unchanged and
\* issues no request when the extension is disabled, when no character name
\* is set, or when the sequence has no user message with a text; it leaves
\* the sequence unchanged when the retrieval returns no memories; and a
\* query it embeds is the text of the last user message of the sequence.
C34_InterceptorFrame ==
    [][/\ (nGens' # nGens /\ qdrantMemoryInterceptor) =>
            /\ (~settings.enabled \/ name2 = "" \/ ~HasUserText(chat)) =>
                  (sent' = chat /\ gens' = gens /\ genResult'.result = "resolved")
            /\ Len(gens') > Len(gens) =>
                  \E i \in 1..Len(chat) :
                     /\ chat[i].is_user
                     /\ \A j \in (i + 1)..Len(chat) : ~chat[j].is_user
                     /\ gens'[Len(gens')].query = chat[i].mes
                     /\ gens'[Len(gens')].chat = chat
       /\ \A k \in 1..Len(gens) :
            ( /\ Len(gens') < Len(gens)
              /\ gens[k].pc = "search"
              /\ gens' = RemoveAt(gens, k)
              /\ genResult'.cause \in NoMemoriesCauses )
               => sent' = gens[k].chat]_vars

C34_QueryFromEarlierUserMessage ==
    /\ genResult.cause = "nomemories"
    /\ sent = chat
    /\ Len(chat) = 2
    /\ chat[1].is_user /\ chat[1].mes # ""
    /\ ~chat[2].is_user

(***************************************************************************)
(* Saving and loading the settings.                                        *)
(***************************************************************************)

\* C35: saving then loading is a round trip: loadSettings run on what
\* saveSettings stored for the settings gives these settings again; every
\* key the stored item lacks takes its default; an item that is no JSON
\* leaves the settings as they start, and loadSettings does not throw.
C35_SettingsRoundTrip ==
    [][(loaded' # loaded /\ Restart) =>
         /\ loaded'.outcome # "threw"
         /\ stored = StoredItem(settings) => settings' = settings
         /\ (stored.item /\ stored.valid) =>
               \A k \in DOMAIN defaultSettings \ DOMAIN stored.fields :
                  settings'[k] = defaultSettings[k]
         /\ (stored.item /\ ~stored.valid) => settings' = defaultSettings]_vars

C35_ReloadedWhatWasSaved ==
    /\ loaded.n >= 2
    /\ loaded.outcome = "parsed"
    /\ stored = StoredItem(settings)
    /\ settings.openaiApiKey = "true"
    /\ settings.memoryPosition = MaxMemoryPosition
    /\ ~settings.enabled

\* C31: the search request carries the memoryLimit and the scoreThreshold that
\* settings holds when the request is built, and a settled search returns
\* the list of the store as it is: at most limit hits, each scoring at least
\* the threshold, best first, none dropped, added or moved.
C31_RetrievalLimitedAndRanked ==
    [][/\ (calls["search"].pc = "embed" /\ calls'["search"].pc = "search") =>
             /\ calls'["search"].limit = settings.memoryLimit
             /\ calls'["search"].threshold = settings.scoreThreshold
       /\ (calls["search"].pc = "search" /\ calls'["search"].pc = "idle") =>
             LET a == calls["search"]
                 pts == Matching(points[a.collectionName], a.filter)
                 h == lastSearch'.hits
             IN /\ Len(h) <= a.limit
                /\ \A i \in 1..Len(h) : h[i].score >= a.threshold
                /\ \A i \in 1..Len(h) : \A j \in (i + 1)..Len(h) : h[i].score >= h[j].score
                /\ \A scoring \in [pts -> ScoreValues] :
                      ScoredSearchResponds("ok", scoring) =>
                         h = StoreSearch(pts, scoring, a.limit, a.threshold)]_vars

\* The scores 90, 50 and 20 with threshold 30 and limit 10: the first two.
C31_FirstTwoOfThree ==
    /\ lastSearch.cause = "searched"
    /\ settings.memoryLimit = MaxMemoryLimit
    /\ settings.scoreThreshold = DefaultScoreThreshold
    /\ Cardinality(points[getCollectionName(settings, "Alice")]) = 3
    /\ Len(lastSearch.hits) = 2
    /\ lastSearch.hits[1].score = 90
    /\ lastSearch.hits[2].score = 50

\* C32: an ensure step that succeeds leaves the collection existing; one that
\* creates it gives it the vector size of the table for the embedding model
\* set when the create request is made (3072 for text-embedding-3-large,
\* 1536 otherwise) and the Cosine distance; and the vector a save sends in
\* its upsert has the length of the collection that save created, whatever
\* happens to the embedding model setting in between.
C32_VectorFitsCreatedCollection ==
    [][\A k \in {"save", "search"} :
          LET c == calls[k].collectionName
          IN /\ (calls[k].pc \in {"exists", "create"} /\ calls'[k].pc = "embed") =>
                   c \in collections'
             /\ (calls[k].pc = "exists" /\ calls'[k].pc = "create") =>
                   calls'[k].dimensions =
                      IF settings.embeddingModel = "text-embedding-3-large"
                      THEN 3072 ELSE 1536
             /\ (calls[k].pc = "create" /\ calls'[k].pc # "create"
                 /\ c \notin collections /\ c \in collections') =>
                   vectorParams'[c] = [size |-> calls[k].dimensions, distance |-> "Cosine"]
             /\ (k = "save" /\ calls[k].pc = "embed" /\ calls'[k].pc = "upsert"
                 /\ calls[k].dimensions # 0) =>
                   calls'[k].vectorLength = calls[k].dimensions]_vars

====
